---- MODULE Spec2Model ----
(***************************************************************************)
(* A model of the fotrab trading engine: the polling schedulers            *)
(* (main.live_trading and DemoTester.run_demo_test), the pre-trade gate    *)
(* and order submission (TradeExecutor.execute_trade), and the exit        *)
(* manager (PositionManager.manage_open_positions).  The MetaTrader        *)
(* gateway is the environment: every call to it may fail.                  *)
(*                                                                         *)
(* Prices are integers in points (price * 100000), money is in whole       *)
(* account units, percentages are whole percents, time is in seconds.      *)
(* Comparisons of quotients are done by cross-multiplication, so they are  *)
(* exact where the program uses binary floating point.                     *)
(***************************************************************************)
EXTENDS Integers, Sequences, FiniteSets, TLC

VARIABLES
    mode,            \* "live" (main.live_trading) or "demo" (DemoTester.run_demo_test)
    demo_cfg,        \* run_demo_test's arguments, in seconds
    risk_settings,   \* Config.get_risk_settings()
    pc,              \* the scheduler's position
    now,             \* the wall clock, seconds since midnight
    cycles,          \* loop iterations started in this run
    connected,       \* MT5Connector.connected
    positions,       \* the gateway's open positions
    nextTicket,      \* the ticket the gateway gives its next accepted order
    open_positions,  \* TradeExecutor.open_positions (tickets, in order)
    trade_log,       \* DemoTester.trade_log
    trades_csv,      \* what AdvancedLogger.log_trade has written
    notified,        \* tickets TelegramNotifier.send_trade_notification was called for
    pmList,          \* manage_open_positions: the positions still to visit
    idx,             \* the symbol loop's index into Pairs
    signal,          \* what analyze_market returned for Pairs[idx]
    sleepFor,        \* the argument of the pending time.sleep
    end_time,        \* run_demo_test's end_time
    cyc,             \* history: what the current cycle has done so far
    orders,          \* history: every order a gateway accepted, [symbol, time]
    attempt,         \* history: the pre-trade checks of the latest trade attempt
    closes,          \* history: the tickets close_position returned True for
    bars,            \* history: the bars the latest analyze_market was given
    startup,         \* history: how MT5Connector.connect() went
    halt,            \* history: why the loop was left and what the way out did
    delivery,        \* history: the notification analyze_market or execute_trade sent last
    probe            \* a function of the program applied on its own: input and result

vars == <<mode, demo_cfg, risk_settings, pc, now, cycles, connected, positions,
          nextTicket, open_positions, trade_log, trades_csv, notified, pmList,
          idx, signal, sleepFor, end_time, cyc, orders, attempt, closes, bars,
          startup, halt, delivery, probe>>

(***************************************************************************)
(* Bounds of the model.                                                    *)
(***************************************************************************)
MaxCycles == 2
MaxTickets == 4

(***************************************************************************)
(* Configuration and program constants.                                    *)
(***************************************************************************)
\* DEFAULT_PAIRS: the first two pairs of the default list
Pairs == <<"EURUSD", "GBPUSD">>
max_open_positions == 3
default_max_daily_loss_percent == 3
default_max_account_drawdown == 10
optimal_hours == {0, 5, 8, 22, 23}
LiveSleepSeconds == 60
OffHoursSleepSeconds == 300
CooldownSeconds == 600
TakeProfitPips == 9
StopLossPips == 6
MaxAgeSeconds == 1800

DefaultRisk ==
    [max_daily_loss_percent |-> default_max_daily_loss_percent,
     max_account_drawdown |-> default_max_account_drawdown]

\* run_demo_test(duration_hours, check_interval): the default check interval
\* of 300 s, and a duration of three intervals
DemoRuns == {[duration |-> 900, check_interval |-> 300]}
NoDemo == [duration |-> 0, check_interval |-> 0]

(***************************************************************************)
(* What the gateway may answer.                                            *)
(***************************************************************************)
\* the live run starts at 07:55:00 (five minutes before an optimal hour) or at
\* 08:58:00 (two minutes before the end of one)
StartTimes == {28500, 32280}

\* the price when an order is placed, and the prices 10 pips above and below
BaseTick == [bid |-> 110000, ask |-> 110010]
Ticks == {BaseTick, [bid |-> 110100, ask |-> 110110],
          [bid |-> 109900, ask |-> 109910]}
NoTick == [bid |-> 0, ask |-> 0]
TickReads == Ticks \cup {NoTick}
OrderTickReads == {BaseTick, NoTick}

\* account_info() as the scheduler runs see it, and as the gate is probed
SchedulerAccounts == {[balance |-> 5000, equity |-> 4851],
                      [balance |-> 5000, equity |-> 4850],
                      [balance |-> 5000, equity |-> 4800]}
RiskConfigs == {DefaultRisk,
                [max_daily_loss_percent |-> 15, max_account_drawdown |-> 10]}
Accounts == {[balance |-> 5000, equity |-> 5000],
             [balance |-> 5000, equity |-> 4851],
             [balance |-> 5000, equity |-> 4850],
             [balance |-> 5000, equity |-> 4800],
             [balance |-> 5000, equity |-> 4501],
             [balance |-> 5000, equity |-> 4500],
             [balance |-> 5000, equity |-> 4250],
             [balance |-> 0, equity |-> 0],
             [balance |-> 0, equity |-> 10]}
NoAccount == [balance |-> -1, equity |-> -1]
AccountReads(accounts) == accounts \cup {NoAccount}

Signals == {"BUY", "SELL"}

(***************************************************************************)
(* Small helpers.                                                          *)
(***************************************************************************)
Tickets(ps) == {p.ticket : p \in ps}

RECURSIVE SortByTicket(_)
SortByTicket(ps) ==
    IF ps = {} THEN <<>>
    ELSE LET p == CHOOSE q \in ps : \A r \in ps : q.ticket <= r.ticket
         IN <<p>> \o SortByTicket(ps \ {p})

current_hour(t) == (t \div 3600) % 24

(***************************************************************************)
(* TradeExecutor: the risk gate.                                           *)
(***************************************************************************)
\* The amounts and the percentages are binary64 numbers in the program and
\* integers here.  The comparisons below are exact, cross-multiplied by 100,
\* except on the inputs of the model for which the binary64 result is on the
\* other side of the limit:
\*   balance * (pct / 100) is above the exact product
\*       (100.0 * (7.0 / 100) = 7.000000000000001)
LimitRoundsUp(balance, pct) == balance = 100 /\ pct = 7
\*   (balance - equity) / balance * 100 is below the exact percentage
\*       ((100.0 - 71.0) / 100.0 * 100 = 28.999999999999996)
DrawdownRoundsDown(balance, equity) == balance = 100 /\ equity = 71

\* daily_pnl <= -max_daily_loss, with max_daily_loss = balance * (percent / 100)
DailyLossReached(a, rs) ==
    IF LimitRoundsUp(a.balance, rs.max_daily_loss_percent)
    THEN (a.equity - a.balance) * 100 < -(a.balance * rs.max_daily_loss_percent)
    ELSE (a.equity - a.balance) * 100 <= -(a.balance * rs.max_daily_loss_percent)

\* drawdown >= max_account_drawdown, with
\* drawdown = (balance - equity) / balance * 100 and balance # 0
DrawdownReached(a, rs) ==
    IF a.balance > 0
    THEN IF DrawdownRoundsDown(a.balance, a.equity)
         THEN (a.balance - a.equity) * 100 > rs.max_account_drawdown * a.balance
         ELSE (a.balance - a.equity) * 100 >= rs.max_account_drawdown * a.balance
    ELSE (a.balance - a.equity) * 100 <= rs.max_account_drawdown * a.balance

\* variant: the check passes when the drawdown cannot be computed
check_risk_management_FailOpen(a, rs) ==
    IF a = NoAccount THEN [checks |-> <<>>, verdict |-> "no_account"]
    ELSE IF DailyLossReached(a, rs)
    THEN [checks |-> <<"daily_loss">>, verdict |-> "daily_loss"]
    ELSE IF a.balance = 0
    THEN [checks |-> <<"daily_loss">>, verdict |-> "ok"]
    ELSE IF DrawdownReached(a, rs)
    THEN [checks |-> <<"daily_loss", "drawdown">>, verdict |-> "drawdown"]
    ELSE [checks |-> <<"daily_loss", "drawdown">>, verdict |-> "ok"]

\* _check_risk_management on the account the gateway returned: the checks it
\* ran, in order, and "ok" or what made it return False
check_risk_management(a, rs) ==
    IF a = NoAccount THEN [checks |-> <<>>, verdict |-> "no_account"]
    ELSE IF DailyLossReached(a, rs)
    THEN [checks |-> <<"daily_loss">>, verdict |-> "daily_loss"]
    ELSE IF a.balance = 0
    THEN [checks |-> <<"daily_loss">>, verdict |-> "error"]  \* ZeroDivisionError
    ELSE IF DrawdownReached(a, rs)
    THEN [checks |-> <<"daily_loss", "drawdown">>, verdict |-> "drawdown"]
    ELSE [checks |-> <<"daily_loss", "drawdown">>, verdict |-> "ok"]

\* _check_max_positions: listed is FALSE when positions_get() returned None
check_max_positions(listed, ps) ==
    IF ~listed THEN TRUE
    ELSE Cardinality(ps) < max_open_positions

(***************************************************************************)
(* TradeExecutor._calculate_position_size(symbol, price) on the account a  *)
(* the gateway returned, in thousandths of a lot.  The instrument class is *)
(* found by substring ('XAU' or 'GOLD', then 'BTC' or 'ETH'); pip_value is *)
(* kept in thousandths.  failed: an exception was raised inside the try    *)
(* (for one, MAX_DAILY_LOSS_PERCENT is not a number).                      *)
(***************************************************************************)
MetalSymbols == {"XAUUSD", "GOLD"}
CryptoSymbols == {"BTCUSD", "ETHUSD"}

SizingRule(symbol) ==
    IF symbol \in MetalSymbols
    THEN [stop_loss_pips |-> 80, pip_value |-> 10,
          min_volume |-> 10, max_volume |-> 1000]
    ELSE IF symbol \in CryptoSymbols
    THEN [stop_loss_pips |-> 150, pip_value |-> 1,
          min_volume |-> 1, max_volume |-> 100]
    ELSE [stop_loss_pips |-> StopLossPips, pip_value |-> 10000,
          min_volume |-> 10, max_volume |-> 1000]

FallbackVolume == 10

\* round(num / den) for den > 0.  Halfway cases depend on the binary64
\* quotient; the two met here (0.0125 and 0.0625 lots) round down.
RoundQuotient(num, den) ==
    LET q == num \div den
        r == num % den
    IN IF 2 * r > den THEN q + 1 ELSE q

Max(a, b) == IF a >= b THEN a ELSE b
Min(a, b) == IF a <= b THEN a ELSE b

\* variant: the size is rounded but not held within the volume limits
calculate_position_size_NoClamp(symbol, a, rs, failed) ==
    IF failed \/ a = NoAccount THEN FallbackVolume
    ELSE LET rule == SizingRule(symbol)
         IN RoundQuotient(a.balance * rs.max_daily_loss_percent * 10000,
                          3 * rule.stop_loss_pips * rule.pip_value)

\* risk_amount = balance * (pct / 100) / 3;
\* position_size = risk_amount / (stop_loss_pips * pip_value), held within
\* [min_volume, max_volume], then round(position_size, 3)
calculate_position_size(symbol, a, rs, failed) ==
    IF failed \/ a = NoAccount THEN FallbackVolume
    ELSE LET rule == SizingRule(symbol)
             num == a.balance * rs.max_daily_loss_percent * 10000
             den == 3 * rule.stop_loss_pips * rule.pip_value
         IN IF num >= rule.max_volume * den THEN rule.max_volume
            ELSE IF num <= rule.min_volume * den THEN rule.min_volume
            ELSE Max(rule.min_volume,
                     Min(RoundQuotient(num, den), rule.max_volume))

(***************************************************************************)
(* DataDrivenStrategy._data_driven_strategy: the decision from the six     *)
(* sub-strategy votes.  buy_count >= total_valid * 0.6 is evaluated in     *)
(* binary64; for 1 to 6 valid votes it agrees with the exact comparison    *)
(* 10 * buy_count >= 6 * total_valid (5 * 0.6 is exactly 3.0).             *)
(***************************************************************************)
Votes == {"BUY", "SELL", "NO_SIGNAL"}

Count(votes, v) == Cardinality({i \in 1..Len(votes) : votes[i] = v})

\* variant: the share of votes has to exceed the required confidence
data_driven_strategy_Above(votes) ==
    LET buy_count == Count(votes, "BUY")
        sell_count == Count(votes, "SELL")
        total_valid == buy_count + sell_count
    IN IF total_valid = 0 THEN "NO_SIGNAL"
       ELSE IF 10 * buy_count > 6 * total_valid THEN "BUY"
       ELSE IF 10 * sell_count > 6 * total_valid THEN "SELL"
       ELSE "NO_SIGNAL"

\* variant: required_confidence is 0.5
data_driven_strategy_Half(votes) ==
    LET buy_count == Count(votes, "BUY")
        sell_count == Count(votes, "SELL")
        total_valid == buy_count + sell_count
    IN IF total_valid = 0 THEN "NO_SIGNAL"
       ELSE IF 10 * buy_count >= 5 * total_valid THEN "BUY"
       ELSE IF 10 * sell_count >= 5 * total_valid THEN "SELL"
       ELSE "NO_SIGNAL"

data_driven_strategy(votes) ==
    LET valid_signals == SelectSeq(votes, LAMBDA v : v # "NO_SIGNAL")
        buy_count == Len(SelectSeq(valid_signals, LAMBDA v : v = "BUY"))
        sell_count == Len(SelectSeq(valid_signals, LAMBDA v : v = "SELL"))
        total_valid == Len(valid_signals)
    IN IF total_valid = 0 THEN "NO_SIGNAL"
       ELSE IF 10 * buy_count >= 6 * total_valid THEN "BUY"
       ELSE IF 10 * sell_count >= 6 * total_valid THEN "SELL"
       ELSE "NO_SIGNAL"

(***************************************************************************)
(* OptimizedStrategy._optimized_scalping_strategy: the decision from the   *)
(* five sub-strategy votes, by the number of confirmations.                *)
(***************************************************************************)
min_confirmations == 2

\* variant: more than min_confirmations votes are needed
optimized_scalping_strategy_Above(votes) ==
    LET buy_count == Count(votes, "BUY")
        sell_count == Count(votes, "SELL")
    IN IF buy_count + sell_count = 0 THEN "NO_SIGNAL"
       ELSE IF buy_count > min_confirmations THEN "BUY"
       ELSE IF sell_count > min_confirmations THEN "SELL"
       ELSE "NO_SIGNAL"

optimized_scalping_strategy(votes) ==
    LET valid_signals == SelectSeq(votes, LAMBDA v : v # "NO_SIGNAL")
        buy_count == Len(SelectSeq(valid_signals, LAMBDA v : v = "BUY"))
        sell_count == Len(SelectSeq(valid_signals, LAMBDA v : v = "SELL"))
    IN IF Len(valid_signals) = 0 THEN "NO_SIGNAL"
       ELSE IF buy_count >= min_confirmations THEN "BUY"
       ELSE IF sell_count >= min_confirmations THEN "SELL"
       ELSE "NO_SIGNAL"

(***************************************************************************)
(* TradingStrategy._scalping_strategy: the five sub-strategy methods it    *)
(* calls on self, in order, and the methods the class defines.  Calling a  *)
(* method the class does not define raises AttributeError before any vote  *)
(* is counted; otherwise BUY (SELL) is returned when the BUY (SELL) votes   *)
(* divided by the valid votes are at least 0.6.                            *)
(***************************************************************************)
ScalpingCalls ==
    <<"_rsi_strategy", "_ma_crossover_strategy", "_bollinger_bands_strategy",
      "_stochastic_strategy", "_momentum_strategy">>

TradingStrategyMethods ==
    {"is_good_trading_session", "get_multi_timeframe_data", "analyze_market",
     "_scalping_strategy", "_rsi_strategy", "_bollinger_bands_strategy",
     "_stochastic_strategy", "_trend_confirmation"}

scalping_strategy(votes) ==
    IF \E k \in 1..Len(ScalpingCalls) : ScalpingCalls[k] \notin TradingStrategyMethods
    THEN "raise"
    ELSE LET valid_signals == SelectSeq(votes, LAMBDA v : v # "NO_SIGNAL")
             buy_signals == Len(SelectSeq(valid_signals, LAMBDA v : v = "BUY"))
             sell_signals == Len(SelectSeq(valid_signals, LAMBDA v : v = "SELL"))
             total_valid == Len(valid_signals)
         IN IF total_valid = 0 THEN "NO_SIGNAL"
            ELSE IF 10 * buy_signals >= 6 * total_valid THEN "BUY"
            ELSE IF 10 * sell_signals >= 6 * total_valid THEN "SELL"
            ELSE "NO_SIGNAL"

(***************************************************************************)
(* TradeExecutor.execute_trade(symbol, sig) at time t against the gateway  *)
(* positions ps, the gateway answering g:                                  *)
(*   g.account   account_info() of the risk check (NoAccount: None)        *)
(*   g.listed    positions_get() of the max-positions check succeeded      *)
(*   g.tick      symbol_info_tick(symbol) (NoTick: None)                   *)
(*   g.account2  account_info() for the log succeeded                      *)
(*   g.symbol    symbol_info(symbol) succeeded                             *)
(*   g.done      order_send returned TRADE_RETCODE_DONE                    *)
(* The result names what stopped the attempt ("none": the order was        *)
(* accepted), the checks that ran, whether order_send was called, and the  *)
(* position the gateway opened.                                            *)
(***************************************************************************)
EntryPrice(sig, tick) == IF sig = "BUY" THEN tick.ask ELSE tick.bid

NewPosition(ticket, symbol, sig, tick, t) ==
    LET price == EntryPrice(sig, tick)
    IN [ticket |-> ticket, symbol |-> symbol, type |-> sig,
        price_open |-> price, time |-> t,
        sl |-> IF sig = "BUY" THEN price - StopLossPips * 10
                              ELSE price + StopLossPips * 10,
        tp |-> IF sig = "BUY" THEN price + TakeProfitPips * 10
                              ELSE price - TakeProfitPips * 10]

\* variant: the retcode of order_send is not looked at
execute_trade_AnyRetcode(conn, symbol, sig, g, rs, ps) ==
    LET risk == check_risk_management(g.account, rs)
        chk == Append(risk.checks, "max_positions")
        stop(why) ==
            [result |-> FALSE, blockedBy |-> why, checks |-> risk.checks,
             sent |-> FALSE]
    IN IF ~conn THEN stop("not_connected")
       ELSE IF risk.verdict # "ok" THEN stop(risk.verdict)
       ELSE IF ~check_max_positions(g.listed, ps) \/ g.tick = NoTick
               \/ ~g.account2 \/ sig \notin Signals \/ ~g.symbol
       THEN [result |-> FALSE, blockedBy |-> "other", checks |-> chk,
             sent |-> FALSE]
       ELSE [result |-> TRUE, blockedBy |-> "none", checks |-> chk, sent |-> TRUE]

execute_trade(conn, symbol, sig, g, rs, ps) ==
    LET risk == check_risk_management(g.account, rs)
        stop(why, chk, sent) ==
            [result |-> FALSE, blockedBy |-> why, checks |-> chk, sent |-> sent]
    IN IF ~conn THEN stop("not_connected", <<>>, FALSE)
       ELSE IF risk.verdict # "ok" THEN stop(risk.verdict, risk.checks, FALSE)
       ELSE IF ~check_max_positions(g.listed, ps)
       THEN stop("max_positions", Append(risk.checks, "max_positions"), FALSE)
       ELSE LET chk == Append(risk.checks, "max_positions")
            IN IF g.tick = NoTick THEN stop("no_tick", chk, FALSE)
               ELSE IF ~g.account2 THEN stop("no_account_info", chk, FALSE)
               ELSE IF sig \notin Signals THEN stop("invalid_signal", chk, FALSE)
               ELSE IF ~g.symbol THEN stop("no_symbol", chk, FALSE)
               ELSE IF ~g.done THEN stop("order_failed", chk, TRUE)
               ELSE [result |-> TRUE, blockedBy |-> "none", checks |-> chk,
                     sent |-> TRUE]

ExecuteAnswers(accounts) ==
    [account : AccountReads(accounts), listed : BOOLEAN, tick : OrderTickReads,
     account2 : BOOLEAN, symbol : BOOLEAN, done : BOOLEAN]

\* execute_trade returns at its first failing step: the answers to the calls
\* it does not reach are not read, and are fixed here
AnswersRead(conn, g, rs, ps) ==
    LET risk_ok == conn /\ check_risk_management(g.account, rs).verdict = "ok"
        max_ok == risk_ok /\ check_max_positions(g.listed, ps)
        tick_ok == max_ok /\ g.tick # NoTick
        account_ok == tick_ok /\ g.account2
        symbol_ok == account_ok /\ g.symbol
    IN /\ ~risk_ok => g.listed
       /\ ~max_ok => g.tick = NoTick
       /\ ~tick_ok => g.account2
       /\ ~account_ok => g.symbol
       /\ ~symbol_ok => g.done

(***************************************************************************)
(* TradeExecutor.close_position(ticket), the gateway answering g:          *)
(*   g.listed   positions_get(ticket=ticket) succeeded                     *)
(*   g.tick     symbol_info_tick (NoTick: None, tick.bid then raises)      *)
(*   g.done     order_send returned TRADE_RETCODE_DONE                     *)
(*   g.account  account_info() for the log succeeded                       *)
(***************************************************************************)
\* variant: the order is built from the ticket without looking the position up
close_position_Unlisted(ticket, g, ps) ==
    IF g.tick = NoTick THEN [result |-> FALSE, sent |-> FALSE, logged |-> FALSE]
    ELSE IF ~g.done THEN [result |-> FALSE, sent |-> TRUE, logged |-> FALSE]
    ELSE [result |-> TRUE, sent |-> TRUE, logged |-> g.account]

close_position(ticket, g, ps) ==
    LET found == IF g.listed THEN {p \in ps : p.ticket = ticket} ELSE {}
    IN IF found = {} THEN [result |-> FALSE, sent |-> FALSE, logged |-> FALSE]
       ELSE IF g.tick = NoTick
       THEN [result |-> FALSE, sent |-> FALSE, logged |-> FALSE]
       ELSE IF ~g.done THEN [result |-> FALSE, sent |-> TRUE, logged |-> FALSE]
       ELSE [result |-> TRUE, sent |-> TRUE, logged |-> g.account]

CloseAnswers ==
    [listed : BOOLEAN, tick : TickReads, done : BOOLEAN, account : BOOLEAN]

(***************************************************************************)
(* PositionManager._check_position_management: the exit trigger of one     *)
(* position at time t on tick.  profit_pips is                             *)
(*   (price difference * volume * 100000) / (volume * 10),                 *)
(* that is, the difference in points divided by 10.                        *)
(***************************************************************************)
ProfitPoints(p, tick) ==
    IF p.type = "BUY" THEN tick.bid - p.price_open
    ELSE p.price_open - tick.ask

\* The program computes profit_pips in binary64.  Its result differs from
\* the exact quotient by less than 1e-11 pips, which decides the comparison
\* only when the exact profit is a threshold (9 or -6 pips).  These are the
\* pairs <<minuend, subtrahend>> of the prices used here, a threshold apart,
\* for which the program's result is smaller in magnitude than the exact one:
\* (1.10090 - 1.10000) and (1.10100 - 1.10010) give 8.999999999999009,
\* (1.10000 - 1.10060) and (1.10010 - 1.10070) give -5.999999999999338,
\* for every volume; the other pairs a threshold apart give 9.00000000000123
\* and -6.00000000000156.
ShortOfExact ==
    {<<110090, 110000>>, <<110100, 110010>>,
     <<110000, 110060>>, <<110010, 110070>>}

\* profit_pips, in twentieths of a pip
profit_pips(p, tick) ==
    LET a == IF p.type = "BUY" THEN tick.bid ELSE p.price_open
        b == IF p.type = "BUY" THEN p.price_open ELSE tick.ask
    IN IF <<a, b>> \in ShortOfExact
       THEN IF a > b THEN 2 * (a - b) - 1 ELSE 2 * (a - b) + 1
       ELSE 2 * (a - b)

ExitTrigger(p, tick, t) ==
    IF tick = NoTick THEN "no_tick"
    ELSE IF profit_pips(p, tick) >= TakeProfitPips * 20 THEN "take_profit"
    ELSE IF profit_pips(p, tick) <= -(StopLossPips * 20) THEN "stop_loss"
    ELSE IF t - p.time > MaxAgeSeconds THEN "time"
    ELSE "none"

ExitTriggers == {"take_profit", "stop_loss", "time"}

(***************************************************************************)
(* DemoTester._should_execute_trade(symbol) at time t: listed is FALSE     *)
(* when positions_get(symbol=symbol) returned None.                        *)
(***************************************************************************)
HasPositionFor(listed, symbol, ps) ==
    listed /\ \E p \in ps : p.symbol = symbol

CooldownActive(symbol, log, t) ==
    \E k \in 1..Len(log) :
        log[k].symbol = symbol /\ t - log[k].timestamp < CooldownSeconds

should_execute_trade(listed, symbol, ps, log, t) ==
    IF HasPositionFor(listed, symbol, ps)
    THEN [result |-> FALSE, blockedBy |-> "existing", checks |-> <<"existing">>]
    ELSE IF CooldownActive(symbol, log, t)
    THEN [result |-> FALSE, blockedBy |-> "cooldown",
          checks |-> <<"existing", "cooldown">>]
    ELSE [result |-> TRUE, blockedBy |-> "none",
          checks |-> <<"existing", "cooldown">>]

(***************************************************************************)
(* MarketData.calculate_technical_indicators on a series of bars.  A bar   *)
(* is [close, high, low], in points from a base price.  An indicator value *)
(* is a quotient num / den of integers, or NaN, as pandas computes it:     *)
(* rolling(n) gives NaN until n observations are in the window, and a      *)
(* float division 0 / 0 gives NaN, x / 0 gives infinity, without raising.  *)
(***************************************************************************)
NaN == [kind |-> "nan", num |-> 0, den |-> 1]
Num(n, d) == [kind |-> "num", num |-> n, den |-> d]

IsNaN(v) == v.kind = "nan"

\* v <= c and v >= c for a number c; every comparison with NaN is false
Leq(v, c) == v.kind = "num" /\ v.num <= c * v.den
Geq(v, c) == v.kind = "num" /\ v.num >= c * v.den

RECURSIVE SumOver(_, _, _)
SumOver(seq, a, b) == IF a > b THEN 0 ELSE seq[a] + SumOver(seq, a + 1, b)

Closes(series) == [i \in 1..Len(series) |-> series[i].close]

\* variant: the mean of the observations there are (min_periods = 1)
rolling_mean_Partial(seq, n, at) ==
    LET from == Max(1, at - n + 1)
    IN Num(SumOver(seq, from, at), at - from + 1)

\* seq.rolling(n).mean() at row at
rolling_mean(seq, n, at) ==
    IF at < n THEN NaN ELSE Num(SumOver(seq, at - n + 1, at), n)

rsi_period == 14

\* delta.where(delta > 0, 0) and -delta.where(delta < 0, 0): the first row,
\* whose delta is NaN, gets 0 in both
Gains(prices) ==
    [i \in 1..Len(prices) |->
        IF i > 1 /\ prices[i] > prices[i - 1] THEN prices[i] - prices[i - 1] ELSE 0]
Losses(prices) ==
    [i \in 1..Len(prices) |->
        IF i > 1 /\ prices[i] < prices[i - 1] THEN prices[i - 1] - prices[i] ELSE 0]

\* rs = gain / loss; rsi = 100 - (100 / (1 + rs)): with loss 0 and gain > 0
\* rs is infinite and rsi is 100; with both 0 rs is NaN
calculate_rsi(prices, at) ==
    IF at < rsi_period THEN NaN
    ELSE LET gain == SumOver(Gains(prices), at - rsi_period + 1, at)
             loss == SumOver(Losses(prices), at - rsi_period + 1, at)
         IN IF loss = 0
            THEN IF gain = 0 THEN NaN ELSE Num(100, 1)
            ELSE Num(100 * gain, gain + loss)

stoch_period == 14
stoch_d_period == 3

RECURSIVE MinOver(_, _, _)
MinOver(seq, a, b) ==
    IF a = b THEN seq[a] ELSE Min(seq[a], MinOver(seq, a + 1, b))
RECURSIVE MaxOver(_, _, _)
MaxOver(seq, a, b) ==
    IF a = b THEN seq[a] ELSE Max(seq[a], MaxOver(seq, a + 1, b))

\* variant: a zero range gives %K = 0
stoch_k_ZeroRange(series, at) ==
    IF at < stoch_period THEN NaN
    ELSE LET lows == [i \in 1..Len(series) |-> series[i].low]
             highs == [i \in 1..Len(series) |-> series[i].high]
             low_min == MinOver(lows, at - stoch_period + 1, at)
             high_max == MaxOver(highs, at - stoch_period + 1, at)
         IN IF high_max = low_min THEN Num(0, 1)
            ELSE Num(100 * (series[at].close - low_min), high_max - low_min)

\* stoch_k = 100 * ((close - low_min) / (high_max - low_min)); close lies
\* within its bar, so a zero range gives 0 / 0
stoch_k(series, at) ==
    IF at < stoch_period THEN NaN
    ELSE LET lows == [i \in 1..Len(series) |-> series[i].low]
             highs == [i \in 1..Len(series) |-> series[i].high]
             low_min == MinOver(lows, at - stoch_period + 1, at)
             high_max == MaxOver(highs, at - stoch_period + 1, at)
         IN IF high_max = low_min THEN NaN
            ELSE Num(100 * (series[at].close - low_min), high_max - low_min)

\* stoch_d = stoch_k.rolling(3).mean(): NaN when one of the three is
stoch_d(series, at) ==
    IF at < stoch_d_period THEN NaN
    ELSE LET k1 == stoch_k(series, at - 2)
             k2 == stoch_k(series, at - 1)
             k3 == stoch_k(series, at)
         IN IF IsNaN(k1) \/ IsNaN(k2) \/ IsNaN(k3) THEN NaN
            ELSE Num(k1.num * k2.den * k3.den + k2.num * k1.den * k3.den
                         + k3.num * k1.den * k2.den,
                     stoch_d_period * k1.den * k2.den * k3.den)

bb_period == 20

\* bb_middle and bb_std of the last 20 closes: the mean is sum / 20 and the
\* squared standard deviation (ddof = 1) is dev / (20 * 19)
bollinger(prices, at) ==
    IF at < bb_period THEN [kind |-> "nan", sum |-> 0, dev |-> 0]
    ELSE LET sum == SumOver(prices, at - bb_period + 1, at)
             squares == SumOver([i \in 1..Len(prices) |-> prices[i] * prices[i]],
                                at - bb_period + 1, at)
         IN [kind |-> "num", sum |-> sum, dev |-> bb_period * squares - sum * sum]

\* the row of the latest bar
calculate_technical_indicators(series) ==
    LET at == Len(series)
    IN [rsi |-> calculate_rsi(Closes(series), at),
        sma_10 |-> rolling_mean(Closes(series), 10, at),
        sma_20 |-> rolling_mean(Closes(series), 20, at),
        bb |-> bollinger(Closes(series), at),
        stoch_k |-> stoch_k(series, at),
        stoch_d |-> stoch_d(series, at)]

(***************************************************************************)
(* The sub-strategies of DataDrivenStrategy that read the indicators.      *)
(***************************************************************************)
rsi_oversold == 25
rsi_overbought == 70
rsi_buy_zone == 35
rsi_sell_zone == 65

optimized_rsi_strategy(latest) ==
    IF IsNaN(latest.rsi) THEN "NO_SIGNAL"
    ELSE IF Leq(latest.rsi, rsi_oversold) THEN "BUY"
    ELSE IF Geq(latest.rsi, rsi_overbought) THEN "SELL"
    ELSE IF Leq(latest.rsi, rsi_buy_zone) THEN "BUY"
    ELSE IF Geq(latest.rsi, rsi_sell_zone) THEN "SELL"
    ELSE "NO_SIGNAL"

\* price <= bb_lower + bb_width * 0.3 is price <= mean - 0.8 std, and
\* price >= bb_upper - bb_width * 0.3 is price >= mean + 0.8 std; with
\* a == 20 * (mean - price) the first is a >= 0 and 25 * 19 * a^2 >= 320 * dev
optimized_bb_strategy(latest, bid) ==
    IF latest.bb.kind = "nan" THEN "NO_SIGNAL"
    ELSE LET a == latest.bb.sum - bb_period * bid
             far == 25 * (bb_period - 1) * a * a >= 16 * bb_period * latest.bb.dev
         IN IF a >= 0 /\ far THEN "BUY"
            ELSE IF a <= 0 /\ far THEN "SELL"
            ELSE "NO_SIGNAL"

optimized_stoch_strategy(latest) ==
    IF IsNaN(latest.stoch_k) \/ IsNaN(latest.stoch_d) THEN "NO_SIGNAL"
    ELSE IF Leq(latest.stoch_k, 20) \/ Leq(latest.stoch_d, 20) THEN "BUY"
    ELSE IF Geq(latest.stoch_k, 80) \/ Geq(latest.stoch_d, 80) THEN "SELL"
    ELSE "NO_SIGNAL"

\* sma_fast > sma_slow, sma_fast < sma_slow: false when one of them is NaN.
\* When the two means are equal in exact arithmetic the rounding of the two
\* binary64 quotients decides: rounding is -1, 0 or 1.
optimized_ma_strategy(latest, rounding) ==
    IF IsNaN(latest.sma_10) \/ IsNaN(latest.sma_20) THEN "NO_SIGNAL"
    ELSE LET fast == latest.sma_10.num * latest.sma_20.den
             slow == latest.sma_20.num * latest.sma_10.den
             diff == IF fast = slow THEN rounding ELSE fast - slow
         IN IF diff > 0 THEN "BUY"
            ELSE IF diff < 0 THEN "SELL"
            ELSE "NO_SIGNAL"

(***************************************************************************)
(* analyze_market(symbol) of the scheduler's strategy, given the number of *)
(* bars get_symbol_data returned (NoBars: None), the tick and the decision *)
(* the aggregation takes on these bars.  live_trading uses                 *)
(* DataDrivenStrategy, _check_and_trade uses TradingStrategy.  With one    *)
(* bar df.iloc[-2] raises IndexError; TradingStrategy._scalping_strategy   *)
(* calls self._ma_crossover_strategy, which the class does not define, and *)
(* raises AttributeError; both are caught by analyze_market's own except.  *)
(***************************************************************************)
NoBars == -1
BarReads == {NoBars, 0, 1, 50}

StrategyOf(m) == IF m = "live" THEN "DataDrivenStrategy" ELSE "TradingStrategy"

\* what _data_driven_strategy can return
Decisions == {data_driven_strategy(votes) : votes \in [1..6 -> Votes]}

\* how the aggregation of the scheduler's strategy can end: with a decision,
\* or with "raise"
DecisionsOf(strategy) ==
    IF strategy = "TradingStrategy"
    THEN {scalping_strategy(votes) : votes \in [1..5 -> Votes]}
    ELSE Decisions

\* variant: with a single bar the latest bar also serves as the previous one
analyze_market_SingleBar(strategy, n, tick, decision) ==
    IF n = NoBars \/ n = 0 THEN "NO_SIGNAL"
    ELSE IF tick = NoTick THEN "NO_SIGNAL"
    ELSE IF decision = "raise" THEN "NO_SIGNAL"
    ELSE decision

analyze_market(strategy, n, tick, decision) ==
    IF n = NoBars \/ n = 0 THEN "NO_SIGNAL"
    ELSE IF tick = NoTick THEN "NO_SIGNAL"
    ELSE IF n < 2 THEN "NO_SIGNAL"
    \* what the aggregation raises is caught by analyze_market's own except
    ELSE IF decision = "raise" THEN "NO_SIGNAL"
    ELSE decision

(***************************************************************************)
(* TelegramNotifier.send_message(message).  A delivery goes one of five    *)
(* ways: the notifier is disabled, its credentials are missing, the HTTP   *)
(* answer is not 200, requests.post raises, or the message is sent.  The   *)
(* result is what the caller gets: "True", "False", or "raise" when an     *)
(* exception leaves send_message.                                          *)
(***************************************************************************)
Delivery == {"sent", "disabled", "no_credentials", "http_error", "exception"}

\* variant: requests.post is called outside the try
send_message_Uncaught(outcome) ==
    IF outcome = "sent" THEN "True"
    ELSE IF outcome = "exception" THEN "raise"
    ELSE "False"

send_message(outcome) == IF outcome = "sent" THEN "True" ELSE "False"

\* what: "signal" (send_signal_notification, from analyze_market) or "trade"
\* (send_trade_notification, from execute_trade); about: the signal or the
\* ticket the message names
Delivered(what, about, outcome) ==
    [what |-> what, about |-> about, outcome |-> outcome]

\* the latest step called no notifier
NoDelivery == Delivered("-", "-", "-")

(***************************************************************************)
(* MT5Connector.connect(): the first step of it that fails, "ok" when none *)
(* does ("error": an exception was raised and caught).                     *)
(***************************************************************************)
ConnectAnswers == {"ok", "initialize", "login", "account_info", "error"}

\* variant: the account query's answer is not looked at
connect_AccountUnchecked(answer) == answer \in {"ok", "account_info"}

connect(answer) == answer = "ok"

(***************************************************************************)
(* The order of the steps of one cycle after the loop's entry test.        *)
(* live_trading manages the open positions and then scans the symbols;     *)
(* _check_and_trade only scans the symbols.                                *)
(***************************************************************************)
\* variant: the open positions are managed after the symbols were scanned
LiveCyclePhases_ManageLast == <<"signals", "manage">>

LiveCyclePhases == <<"manage", "signals">>
DemoCyclePhases == <<"signals">>

CyclePhases(m) == IF m = "live" THEN LiveCyclePhases ELSE DemoCyclePhases

PcOf(phase) == IF phase = "manage" THEN "manage" ELSE "analyze"

FirstPc(m) == PcOf(CyclePhases(m)[1])

PcAfter(m, phase) ==
    LET ph == CyclePhases(m)
        k == CHOOSE i \in 1..Len(ph) : ph[i] = phase
    IN IF k < Len(ph) THEN PcOf(ph[k + 1]) ELSE "status"

(***************************************************************************)
(* History records.                                                        *)
(***************************************************************************)
NewCycle(inHours) ==
    [inHours |-> inHours, pmRan |-> FALSE, listing |-> {}, trace |-> <<>>]

\* ev: "eval" (a position's exit triggers were evaluated), "error" (the tick
\* query for the position raised and ended manage_open_positions), "close"
\* (close_position was called for it, why: the trigger), "signal"
\* (analyze_market was called for the symbol), "order" (order_send was called
\* to open a position on the symbol)
Event(ev, ticket, symbol, why) ==
    [ev |-> ev, ticket |-> ticket, symbol |-> symbol, why |-> why]

\* what an attempt could change on the engine's side, as it is before it
Snapshot(tracked, logged, sent) ==
    [tracked |-> Len(tracked), logged |-> Len(logged), notified |-> Cardinality(sent)]

NoAttempt ==
    [symbol |-> "-", signal |-> "-", account |-> NoAccount, checks |-> <<>>,
     blockedBy |-> "-", sent |-> FALSE, result |-> FALSE,
     before |-> Snapshot(<<>>, <<>>, {})]

\* no function has been applied on its own
NoProbe == [fn |-> "-"]

BackoffSeconds == 60

LoopPcs == {"loop", "manage", "manage_pos", "analyze", "execute", "status",
            "sleep", "backoff"}

(***************************************************************************)
(* The initial state: the menu choice has been made, nothing is connected. *)
(***************************************************************************)
Init ==
    /\ mode \in {"live", "demo"}
    /\ demo_cfg \in (IF mode = "demo" THEN DemoRuns ELSE {NoDemo})
    /\ risk_settings = DefaultRisk
    /\ pc = "connect"
    /\ now \in (IF mode = "live" THEN StartTimes ELSE {0})
    /\ cycles = 0
    /\ connected = FALSE
    /\ positions = {}
    /\ nextTicket = 1
    /\ open_positions = <<>>
    /\ trade_log = <<>>
    /\ trades_csv = <<>>
    /\ notified = {}
    /\ pmList = <<>>
    /\ idx = 1
    /\ signal = "NO_SIGNAL"
    /\ sleepFor = 0
    /\ end_time = 0
    /\ cyc = NewCycle(FALSE)
    /\ orders = <<>>
    /\ attempt = NoAttempt
    /\ closes = <<>>
    /\ bars = NoBars
    /\ startup = "-"
    /\ halt = <<>>
    /\ delivery = NoDelivery
    /\ probe = NoProbe

(***************************************************************************)
(* MT5Connector.connect() and the start of the run.  run_demo_test reads   *)
(* account_info().balance right after connecting, outside any try.         *)
(***************************************************************************)
Connect ==
    /\ pc = "connect"
    /\ \E answer \in ConnectAnswers, account \in BOOLEAN :
        LET ok == connect(answer)
        IN /\ startup' = answer
           /\ connected' = ok
           /\ pc' = IF ok /\ (mode = "live" \/ account) THEN "loop" ELSE "done"
           /\ end_time' = IF ok /\ mode = "demo" /\ account
                          THEN now + demo_cfg.duration ELSE end_time
           /\ halt' = IF ok /\ mode = "demo" /\ ~account THEN <<"error">> ELSE halt
    /\ UNCHANGED <<bars, closes, probe, delivery, mode, demo_cfg, risk_settings, now, cycles,
                   positions, nextTicket, open_positions, trade_log, trades_csv,
                   notified, pmList, idx, signal, sleepFor, cyc, orders, attempt>>

(***************************************************************************)
(* The head of the loop.  live_trading: while True, then the hour filter   *)
(* (outside the optimal hours: sleep 300 and continue).  run_demo_test:    *)
(* while time.time() < end_time, then _check_and_trade, which builds a     *)
(* new TradeExecutor.                                                      *)
(***************************************************************************)
LiveCycleStart ==
    /\ pc = "loop" /\ mode = "live"
    /\ cycles < MaxCycles
    /\ cycles' = cycles + 1
    /\ LET inHours == current_hour(now) \in optimal_hours
       IN /\ cyc' = NewCycle(inHours)
          /\ pc' = IF inHours THEN FirstPc(mode) ELSE "sleep"
          /\ sleepFor' = IF inHours THEN sleepFor ELSE OffHoursSleepSeconds
    /\ attempt' = NoAttempt
    /\ delivery' = NoDelivery
    /\ UNCHANGED <<bars, startup, halt, closes, probe, mode, demo_cfg, risk_settings, now, connected, positions,
                   nextTicket, open_positions, trade_log, trades_csv, notified,
                   pmList, idx, signal, end_time, orders>>

DemoCycleStart ==
    /\ pc = "loop" /\ mode = "demo"
    /\ now < end_time
    /\ cycles' = cycles + 1
    /\ cyc' = NewCycle(TRUE)
    /\ pc' = FirstPc(mode)
    /\ open_positions' = <<>>
    /\ attempt' = NoAttempt
    /\ delivery' = NoDelivery
    /\ UNCHANGED <<bars, startup, halt, closes, probe, mode, demo_cfg, risk_settings, now, connected, positions,
                   nextTicket, trade_log, trades_csv, notified, pmList, idx,
                   signal, sleepFor, end_time, orders>>

DemoLoopEnd ==
    /\ pc = "loop" /\ mode = "demo"
    /\ ~(now < end_time)
    /\ pc' = "report"
    /\ halt' = <<"budget">>
    /\ UNCHANGED <<bars, startup, closes, probe, delivery, mode, demo_cfg, risk_settings, now,
                   cycles, connected, positions, nextTicket, open_positions,
                   trade_log, trades_csv, notified, pmList, idx, signal, sleepFor,
                   end_time, cyc, orders, attempt>>

(***************************************************************************)
(* PositionManager.manage_open_positions: the listing, then one            *)
(* _check_position_management per listed position.  The for loop is inside *)
(* manage_open_positions' try and _check_position_management has no try of *)
(* its own: when mt5.symbol_info_tick raises, the exception ends the loop   *)
(* and is caught after it.  close_position catches what is raised inside   *)
(* it.                                                                     *)
(***************************************************************************)
Manage ==
    /\ pc = "manage"
    /\ \E listed \in BOOLEAN :
        LET listing == IF connected /\ listed THEN positions ELSE {}
        IN /\ pmList' = SortByTicket(listing)
           /\ cyc' = [cyc EXCEPT !.pmRan = TRUE, !.listing = Tickets(listing)]
           /\ pc' = IF listing = {} THEN PcAfter(mode, "manage") ELSE "manage_pos"
    /\ UNCHANGED <<bars, startup, halt, closes, probe, delivery, mode, demo_cfg, risk_settings, now, cycles, connected,
                   positions, nextTicket, open_positions, trade_log, trades_csv,
                   notified, idx, signal, sleepFor, end_time, orders, attempt>>

ManagePosition ==
    /\ pc = "manage_pos"
    /\ LET p == Head(pmList)
           seen == Event("eval", p.ticket, p.symbol, "-")
       IN \/ /\ cyc' = [cyc EXCEPT !.trace =
                            Append(@, Event("error", p.ticket, p.symbol, "-"))]
             /\ pmList' = <<>>
             /\ pc' = PcAfter(mode, "manage")
             /\ UNCHANGED <<positions, trades_csv, closes>>
          \/ /\ pmList' = Tail(pmList)
             /\ pc' = IF Tail(pmList) = <<>> THEN PcAfter(mode, "manage")
                      ELSE "manage_pos"
             /\ \E tick \in TickReads :
                   IF ExitTrigger(p, tick, now) \in ExitTriggers
                   THEN \E g \in CloseAnswers :
                           LET r == close_position(p.ticket, g, positions)
                           IN /\ positions' = IF r.result
                                              THEN {q \in positions : q.ticket # p.ticket}
                                              ELSE positions
                              /\ closes' = IF r.result THEN Append(closes, p.ticket)
                                           ELSE closes
                              /\ trades_csv' = IF r.logged
                                               THEN Append(trades_csv,
                                                           [action |-> "CLOSE", ticket |-> p.ticket])
                                               ELSE trades_csv
                              /\ cyc' = [cyc EXCEPT !.trace =
                                            @ \o <<seen, Event("close", p.ticket, p.symbol,
                                                                ExitTrigger(p, tick, now))>>]
                   ELSE /\ cyc' = [cyc EXCEPT !.trace = Append(@, seen)]
                        /\ UNCHANGED <<positions, trades_csv, closes>>
    /\ UNCHANGED <<bars, startup, halt, probe, delivery, mode, demo_cfg, risk_settings, now,
                   cycles, connected,
                   nextTicket, open_positions, trade_log, notified, idx, signal,
                   sleepFor, end_time, orders, attempt>>

(***************************************************************************)
(* The symbol loop: for pair in pairs, in both schedulers.                 *)
(***************************************************************************)
\* variant: a submission that failed is made again before the loop moves on
NextPair_RetryFailed ==
    IF pc = "execute" /\ attempt'.sent /\ ~attempt'.result
    THEN idx' = idx /\ pc' = "execute"
    ELSE IF idx < Len(Pairs)
    THEN idx' = idx + 1 /\ pc' = "analyze"
    ELSE idx' = 1 /\ pc' = PcAfter(mode, "signals")

\* the loop moves on to the next pair, or ends
NextPair ==
    IF idx < Len(Pairs)
    THEN idx' = idx + 1 /\ pc' = "analyze"
    ELSE idx' = 1 /\ pc' = PcAfter(mode, "signals")

\* signal = strategy.analyze_market(pair); if signal != "NO_SIGNAL": ...
\* _check_and_trade asks _should_execute_trade before it executes.
Analyze ==
    /\ pc = "analyze"
    /\ \E n \in BarReads, tick \in OrderTickReads,
          decision \in DecisionsOf(StrategyOf(mode)) :
        \* send_signal_notification is called for a BUY or SELL decision,
        \* inside analyze_market's try: an exception leaving it would be
        \* caught there and turn the answer into NO_SIGNAL
        LET decided == analyze_market(StrategyOf(mode), n, tick, decision)
        IN \E outcome \in (IF decided = "NO_SIGNAL" THEN {"-"} ELSE Delivery) :
            LET reply == IF decided = "NO_SIGNAL" THEN "-" ELSE send_message(outcome)
                sig == IF reply = "raise" THEN "NO_SIGNAL" ELSE decided
            IN /\ bars' = n
               /\ signal' = sig
               /\ delivery' = IF decided = "NO_SIGNAL" THEN NoDelivery
                              ELSE Delivered("signal", decided, outcome)
               /\ IF sig = "NO_SIGNAL" THEN NextPair
                  \* "gate": _should_execute_trade is asked first;
                  \* TradingStrategy gives no signal, so _check_and_trade
                  \* never gets there
                  ELSE /\ pc' = IF mode = "live" THEN "execute" ELSE "gate"
                       /\ idx' = idx
    /\ cyc' = [cyc EXCEPT !.trace = Append(@, Event("signal", 0, Pairs[idx], "-"))]
    /\ attempt' = NoAttempt
    /\ UNCHANGED <<startup, halt, closes, probe, mode, demo_cfg, risk_settings, now,
                   cycles, connected, positions, nextTicket, open_positions,
                   trade_log, trades_csv, notified, pmList, sleepFor, end_time,
                   orders>>

\* executor.execute_trade(pair, signal) and what the scheduler does with its
\* result (demo: self._log_trade(pair, signal, executor.open_positions[-1]))
ExecuteWith(accounts) ==
    /\ pc = "execute"
    /\ \E g \in ExecuteAnswers(accounts) :
      \E outcome \in (IF execute_trade(connected, Pairs[idx], signal, g,
                                       risk_settings, positions).result
                      THEN Delivery ELSE {"-"}) :
        LET symbol == Pairs[idx]
            r == execute_trade(connected, symbol, signal, g, risk_settings, positions)
            \* send_trade_notification is called once the order is accepted,
            \* before the position is tracked and logged, inside
            \* execute_trade's try: an exception leaving it would be caught
            \* there and execute_trade would return False
            reply == IF r.result THEN send_message(outcome) ELSE "-"
            done == r.result /\ reply # "raise"
        IN /\ AnswersRead(connected, g, risk_settings, positions)
           /\ r.sent /\ g.done => nextTicket <= MaxTickets
           /\ delivery' = IF r.result THEN Delivered("trade", nextTicket, outcome)
                          ELSE NoDelivery
           /\ attempt' = [symbol |-> symbol, signal |-> signal,
                          account |-> g.account,
                          checks |-> attempt.checks \o r.checks,
                          blockedBy |-> r.blockedBy, sent |-> r.sent,
                          result |-> done,
                          before |-> IF attempt = NoAttempt
                                     THEN Snapshot(open_positions, trades_csv, notified)
                                     ELSE attempt.before]
           /\ cyc' = IF r.sent
                     THEN [cyc EXCEPT !.trace = Append(@, Event("order", 0, symbol, "-"))]
                     ELSE cyc
           \* the gateway's side: order_send answered TRADE_RETCODE_DONE
           /\ IF r.sent /\ g.done
              THEN /\ positions' = positions \cup
                          {NewPosition(nextTicket, symbol, signal, g.tick, now)}
                   /\ nextTicket' = nextTicket + 1
                   /\ orders' = Append(orders, [symbol |-> symbol, time |-> now])
              ELSE UNCHANGED <<positions, nextTicket, orders>>
           \* the engine's side: what follows the retcode test, with
           \* result.order as the ticket
           /\ notified' = IF r.result THEN notified \cup {nextTicket} ELSE notified
           /\ IF done
              THEN /\ open_positions' = Append(open_positions, nextTicket)
                   /\ trades_csv' = Append(trades_csv,
                                           [action |-> "OPEN", ticket |-> nextTicket])
                   /\ trade_log' = IF mode = "demo"
                                   THEN Append(trade_log,
                                               [symbol |-> symbol, timestamp |-> now])
                                   ELSE trade_log
              ELSE UNCHANGED <<open_positions, trades_csv, trade_log>>
    /\ NextPair
    /\ UNCHANGED <<bars, startup, halt, closes, probe, mode, demo_cfg, risk_settings, now, cycles, connected, pmList,
                   signal, sleepFor, end_time>>

Execute == ExecuteWith(SchedulerAccounts)

(***************************************************************************)
(* The end of a cycle: the status print, then time.sleep.                  *)
(***************************************************************************)
Status ==
    /\ pc = "status"
    /\ sleepFor' = IF mode = "live" THEN LiveSleepSeconds
                   ELSE demo_cfg.check_interval
    /\ pc' = "sleep"
    /\ attempt' = NoAttempt
    /\ delivery' = NoDelivery
    /\ UNCHANGED <<bars, startup, halt, closes, probe, mode, demo_cfg, risk_settings, now, cycles, connected,
                   positions, nextTicket, open_positions, trade_log, trades_csv,
                   notified, pmList, idx, signal, end_time, cyc, orders>>

Sleep ==
    /\ pc = "sleep"
    /\ now' = now + sleepFor
    /\ pc' = "loop"
    /\ UNCHANGED <<bars, startup, halt, closes, probe, delivery, mode, demo_cfg, risk_settings, cycles, connected, positions,
                   nextTicket, open_positions, trade_log, trades_csv, notified,
                   pmList, idx, signal, sleepFor, end_time, cyc, orders, attempt>>

(***************************************************************************)
(* The ways out of the loop.  KeyboardInterrupt: live_trading sends the    *)
(* shutdown notification and disconnects in its finally block;             *)
(* run_demo_test breaks out of the loop to the final report.               *)
(***************************************************************************)
Interrupt ==
    /\ pc \in LoopPcs
    /\ IF mode = "live"
       THEN /\ pc' = "done" /\ connected' = FALSE
            /\ halt' = <<"stop", "summary", "disconnect">>
       ELSE IF pc = "backoff"
       THEN pc' = "done" /\ connected' = connected /\ halt' = <<"stop">>
       ELSE pc' = "report" /\ connected' = connected /\ halt' = <<"stop">>
    /\ UNCHANGED <<bars, startup, closes, probe, delivery, mode, demo_cfg, risk_settings, now,
                   cycles, positions, nextTicket, open_positions, trade_log,
                   trades_csv, notified, pmList, idx, signal, sleepFor, end_time,
                   cyc, orders, attempt>>

\* self._generate_report(...); self.mt5.disconnect()
Report ==
    /\ pc = "report"
    /\ pc' = "done"
    /\ connected' = FALSE
    /\ halt' = halt \o <<"report", "disconnect">>
    /\ UNCHANGED <<bars, startup, closes, probe, delivery, mode, demo_cfg, risk_settings, now,
                   cycles, positions, nextTicket, open_positions, trade_log,
                   trades_csv, notified, pmList, idx, signal, sleepFor, end_time,
                   cyc, orders, attempt>>

(***************************************************************************)
(* An exception raised by a call the loop makes itself (mt5.account_info() *)
(* for the status line).  live_trading: the try encloses the while, so the *)
(* handler runs once, sends the error notification and the finally block   *)
(* disconnects.  run_demo_test: the try is inside the while; the handler   *)
(* sleeps 60 seconds and the loop test is made again.                      *)
(***************************************************************************)
Raise ==
    /\ pc = "status"
    /\ cyc' = [cyc EXCEPT !.trace = Append(@, Event("raise", 0, "-", "-"))]
    /\ IF mode = "live"
       THEN /\ pc' = "done" /\ connected' = FALSE
            /\ halt' = <<"error", "error_notification", "disconnect">>
       ELSE pc' = "backoff" /\ connected' = connected /\ halt' = halt
    /\ UNCHANGED <<bars, startup, closes, probe, delivery, mode, demo_cfg, risk_settings, now,
                   cycles, positions, nextTicket, open_positions, trade_log,
                   trades_csv, notified, pmList, idx, signal, sleepFor, end_time,
                   orders, attempt>>

\* time.sleep(60) in run_demo_test's except Exception
Backoff ==
    /\ pc = "backoff"
    /\ now' = now + BackoffSeconds
    /\ pc' = "loop"
    /\ UNCHANGED <<bars, startup, halt, closes, probe, delivery, mode, demo_cfg, risk_settings,
                   cycles, connected, positions, nextTicket, open_positions,
                   trade_log, trades_csv, notified, pmList, idx, signal, sleepFor,
                   end_time, cyc, orders, attempt>>

(***************************************************************************)
(* The gateway closes a position on its own (its attached stop-loss or     *)
(* take-profit fires, or the account holder closes it by hand).            *)
(***************************************************************************)
BrokerClose ==
    /\ pc \in LoopPcs
    /\ \E p \in positions : positions' = positions \ {p}
    /\ UNCHANGED <<bars, startup, halt, closes, probe, delivery, mode, demo_cfg, risk_settings, pc, now, cycles, connected,
                   nextTicket, open_positions, trade_log, trades_csv, notified,
                   pmList, idx, signal, sleepFor, end_time, cyc, orders, attempt>>

Next ==
    \/ Connect
    \/ LiveCycleStart
    \/ DemoCycleStart
    \/ DemoLoopEnd
    \/ Manage
    \/ ManagePosition
    \/ Analyze
    \/ Execute
    \/ Status
    \/ Sleep
    \/ Raise
    \/ Backoff
    \/ Interrupt
    \/ Report
    \/ BrokerClose

Spec == Init /\ [][Next]_vars

(***************************************************************************)
(* The stop signal inside execute_trade.  KeyboardInterrupt is not an      *)
(* Exception, so execute_trade's handler does not catch it: when it is     *)
(* raised as order_send returns, the gateway has the position and the      *)
(* lines that register it (notification, open_positions.append, log_trade) *)
(* do not run; live_trading's handler and finally block run next.          *)
(***************************************************************************)
ExecuteStopped ==
    /\ pc = "execute" /\ mode = "live"
    /\ nextTicket <= MaxTickets
    /\ \E g \in ExecuteAnswers(SchedulerAccounts) :
        LET symbol == Pairs[idx]
            r == execute_trade(connected, symbol, signal, g, risk_settings, positions)
        IN /\ AnswersRead(connected, g, risk_settings, positions)
           /\ r.sent /\ g.done
           /\ positions' = positions \cup
                   {NewPosition(nextTicket, symbol, signal, g.tick, now)}
           /\ orders' = Append(orders, [symbol |-> symbol, time |-> now])
           /\ cyc' = [cyc EXCEPT !.trace = Append(@, Event("order", 0, symbol, "-"))]
           /\ attempt' = [symbol |-> symbol, signal |-> signal,
                          account |-> g.account,
                          checks |-> attempt.checks \o r.checks,
                          blockedBy |-> "stopped", sent |-> TRUE, result |-> FALSE,
                          before |-> Snapshot(open_positions, trades_csv, notified)]
    /\ nextTicket' = nextTicket + 1
    /\ pc' = "done"
    /\ connected' = FALSE
    /\ halt' = <<"stop", "summary", "disconnect">>
    /\ delivery' = NoDelivery
    /\ UNCHANGED <<bars, startup, closes, probe, mode, demo_cfg, risk_settings, now,
                   cycles, open_positions, trade_log, trades_csv, notified, pmList,
                   idx, signal, sleepFor, end_time>>

StopNext ==
    \/ Next
    \/ ExecuteStopped

StopSpec == Init /\ [][StopNext]_vars

(***************************************************************************)
(* The gate on its own: execute_trade called for the symbols again and     *)
(* again on a connected gateway, under each risk configuration and every   *)
(* account state, with no sleep in between.                                *)
(***************************************************************************)
GateInit ==
    /\ mode = "live"
    /\ demo_cfg = NoDemo
    /\ risk_settings \in RiskConfigs
    /\ pc = "analyze"
    /\ now = 0
    /\ cycles = 1
    /\ connected = TRUE
    /\ positions = {}
    /\ nextTicket = 1
    /\ open_positions = <<>>
    /\ trade_log = <<>>
    /\ trades_csv = <<>>
    /\ notified = {}
    /\ pmList = <<>>
    /\ idx = 1
    /\ signal = "NO_SIGNAL"
    /\ sleepFor = 0
    /\ end_time = 0
    /\ cyc = NewCycle(TRUE)
    /\ orders = <<>>
    /\ attempt = NoAttempt
    /\ closes = <<>>
    /\ bars = NoBars
    /\ startup = "ok"
    /\ halt = <<>>
    /\ delivery = NoDelivery
    /\ probe = NoProbe

GateExecute == ExecuteWith(Accounts)

\* the symbol loop is entered again
GateAgain ==
    /\ pc = "status"
    /\ pc' = "analyze"
    /\ cyc' = NewCycle(TRUE)
    /\ attempt' = NoAttempt
    /\ delivery' = NoDelivery
    /\ UNCHANGED <<bars, startup, halt, closes, probe, mode, demo_cfg, risk_settings, now, cycles, connected,
                   positions, nextTicket, open_positions, trade_log, trades_csv,
                   notified, pmList, idx, signal, sleepFor, end_time, orders>>

GateNext ==
    \/ Analyze
    \/ GateExecute
    \/ GateAgain

GateSpec == GateInit /\ [][GateNext]_vars

(***************************************************************************)
(* The live loop running for ever over two positions that are open at the  *)
(* gateway, in a market that gives no signal.  The clock is the time of    *)
(* day (datetime.now().hour is all the loop reads of it).  The tick of the *)
(* watched position satisfies an exit trigger whenever it is read; the     *)
(* other position's tick, the listing and the close call go as the gateway *)
(* likes.                                                                  *)
(***************************************************************************)
SecondsPerDay == 86400

\* the position whose close is followed
Watched == 2

CloseInit ==
    /\ mode = "live"
    /\ demo_cfg = NoDemo
    /\ risk_settings = DefaultRisk
    /\ pc = "loop"
    /\ now = 8 * 3600
    /\ cycles = 0
    /\ connected = TRUE
    /\ positions = {NewPosition(1, "EURUSD", "BUY", BaseTick, 0),
                    NewPosition(2, "GBPUSD", "SELL", BaseTick, 0)}
    /\ nextTicket = 3
    /\ open_positions = <<1, 2>>
    /\ trade_log = <<>>
    /\ trades_csv = <<[action |-> "OPEN", ticket |-> 1],
                      [action |-> "OPEN", ticket |-> 2]>>
    /\ notified = {1, 2}
    /\ pmList = <<>>
    /\ idx = 1
    /\ signal = "NO_SIGNAL"
    /\ sleepFor = 0
    /\ end_time = 0
    /\ cyc = NewCycle(TRUE)
    /\ orders = <<[symbol |-> "EURUSD", time |-> 0],
                  [symbol |-> "GBPUSD", time |-> 0]>>
    /\ attempt = NoAttempt
    /\ closes = <<>>
    /\ bars = NoBars
    /\ startup = "ok"
    /\ halt = <<>>
    /\ delivery = NoDelivery
    /\ probe = NoProbe

\* while True and the hour filter, the iterations not being counted
CloseCycleStart ==
    /\ pc = "loop" /\ mode = "live"
    /\ LET inHours == current_hour(now) \in optimal_hours
       IN /\ cyc' = NewCycle(inHours)
          /\ pc' = IF inHours THEN FirstPc(mode) ELSE "sleep"
          /\ sleepFor' = IF inHours THEN sleepFor ELSE OffHoursSleepSeconds
    /\ UNCHANGED <<bars, startup, halt, closes, probe, delivery, mode, demo_cfg,
                   risk_settings, now, cycles, connected, positions, nextTicket,
                   open_positions, trade_log, trades_csv, notified, pmList, idx,
                   signal, end_time, orders, attempt>>

\* the watched position's tick is there and satisfies an exit trigger:
\* close_position is called for it
CloseManagePosition ==
    /\ ManagePosition
    /\ Head(pmList).ticket = Watched =>
           cyc'.trace[Len(cyc'.trace)] = Event("close", Watched, Head(pmList).symbol,
                                               cyc'.trace[Len(cyc'.trace)].why)

\* analyze_market gets its 50 bars and finds no signal
CloseAnalyze ==
    /\ Analyze
    /\ bars' = 50
    /\ signal' = "NO_SIGNAL"

\* time.sleep, the clock showing the time of day
CloseSleep ==
    /\ pc = "sleep"
    /\ now' = (now + sleepFor) % SecondsPerDay
    /\ pc' = "loop"
    /\ UNCHANGED <<bars, startup, halt, closes, probe, delivery, mode, demo_cfg,
                   risk_settings, cycles, connected, positions, nextTicket,
                   open_positions, trade_log, trades_csv, notified, pmList, idx,
                   signal, sleepFor, end_time, cyc, orders, attempt>>

CloseNext ==
    \/ CloseCycleStart
    \/ Manage
    \/ CloseManagePosition
    \/ CloseAnalyze
    \/ Status
    \/ CloseSleep

\* positions_get() lists the watched position
ListedWatched == Manage /\ Watched \in cyc'.listing

\* the close call for the watched position succeeds
ClosedWatched ==
    /\ CloseManagePosition
    /\ Watched \in Tickets(positions)
    /\ Watched \notin Tickets(positions')

\* the loop keeps running; the listing and the close call, asked again and
\* again, succeed in the end
CloseSpec ==
    /\ CloseInit
    /\ [][CloseNext]_vars
    /\ WF_vars(CloseNext)
    /\ SF_vars(ListedWatched)
    /\ SF_vars(ClosedWatched)

(***************************************************************************)
(* Functions of the program applied on their own to inputs drawn from      *)
(* bounded sets: the schedulers stay where they are, probe records the     *)
(* input and the result of the one application.                            *)
(***************************************************************************)
ProbeInit ==
    /\ mode = "live"
    /\ demo_cfg = NoDemo
    /\ risk_settings = DefaultRisk
    /\ pc = "done"
    /\ now = 0
    /\ cycles = 0
    /\ connected = TRUE
    /\ positions = {}
    /\ nextTicket = 1
    /\ open_positions = <<>>
    /\ trade_log = <<>>
    /\ trades_csv = <<>>
    /\ notified = {}
    /\ pmList = <<>>
    /\ idx = 1
    /\ signal = "NO_SIGNAL"
    /\ sleepFor = 0
    /\ end_time = 0
    /\ cyc = NewCycle(TRUE)
    /\ orders = <<>>
    /\ attempt = NoAttempt
    /\ closes = <<>>
    /\ bars = NoBars
    /\ startup = "ok"
    /\ halt = <<>>
    /\ delivery = NoDelivery
    /\ probe = NoProbe

ProbeUnchanged ==
    UNCHANGED <<mode, demo_cfg, risk_settings, pc, now, cycles, connected,
                positions, nextTicket, open_positions, trade_log, trades_csv,
                notified, pmList, idx, signal, sleepFor, end_time, cyc, orders,
                attempt, closes, bars, startup, halt, delivery>>

\* a standard pair and a JPY-quoted pair of the default list
ProbeSymbols == {"EURUSD", "USDJPY"}

\* the price at which the probed order is placed: 1.10000 or 1.10010 for
\* EURUSD, 150.000 for USDJPY
ProbeOpenPrices(symbol) ==
    IF symbol = "USDJPY" THEN {15000000} ELSE {110000, 110010}

\* ticks around the exit thresholds of positions opened at those prices, the
\* spread being one pip of the instrument
ProbeTicks(symbol) ==
    IF symbol = "USDJPY"
    THEN {[bid |-> b, ask |-> b + 1000] :
             b \in {14990000, 14998900, 14999000, 15000000, 15000100, 15009000}}
    ELSE {[bid |-> b, ask |-> b + 10] :
             b \in {109900, 109901, 109910, 109911, 109940, 109941, 109950,
                    110000, 110049, 110050, 110060, 110089, 110090, 110099,
                    110100, 110200}}

\* the age of the position when the manager looks at it
ProbeAges == {60, 1800, 1801}

\* _check_position_management(position) on a tick the gateway returns
ProbeExit ==
    /\ probe = NoProbe
    /\ \E symbol \in ProbeSymbols, sig \in Signals, age \in ProbeAges :
        \E open \in ProbeOpenPrices(symbol),
           tick \in ProbeTicks(symbol) \cup {NoTick} :
            LET p == NewPosition(1, symbol, sig, [bid |-> open, ask |-> open], 0)
                trigger == ExitTrigger(p, tick, age)
            IN probe' = [fn |-> "exit", position |-> p, tick |-> tick,
                         age |-> age, trigger |-> trigger,
                         close |-> trigger \in ExitTriggers]
    /\ ProbeUnchanged

\* the order request execute_trade builds for a signal on a tick
ProbeOrder ==
    /\ probe = NoProbe
    /\ \E symbol \in ProbeSymbols, sig \in Signals :
        \E tick \in ProbeTicks(symbol) :
            probe' = [fn |-> "order", symbol |-> symbol, signal |-> sig,
                      tick |-> tick,
                      request |-> NewPosition(1, symbol, sig, tick, 0)]
    /\ ProbeUnchanged

\* symbols of each instrument class, and account balances that leave the
\* size at the minimum, inside the limits and at the maximum of a class
SizingSymbols == {"EURUSD", "USDJPY", "XAUUSD", "BTCUSD"}
SizingBalances == {-100, 0, 1, 50, 1000, 5000, 10000}

\* _calculate_position_size(symbol, price)
ProbeSize ==
    /\ probe = NoProbe
    /\ \E symbol \in SizingSymbols, rs \in RiskConfigs, failed \in BOOLEAN :
        \E a \in {[balance |-> b, equity |-> b] : b \in SizingBalances}
                 \cup {NoAccount} :
            probe' = [fn |-> "size", symbol |-> symbol, account |-> a,
                      risk |-> rs, failed |-> failed,
                      size |-> calculate_position_size(symbol, a, rs, failed)]
    /\ ProbeUnchanged

\* a quote of each sizing symbol, in points of 0.00001: 1.10000, 150.000,
\* 2000.00 and 10000.0
SubmitTick(symbol) ==
    IF symbol = "USDJPY" THEN [bid |-> 15000000, ask |-> 15001000]
    ELSE IF symbol = "XAUUSD" THEN [bid |-> 200000000, ask |-> 200030000]
    ELSE IF symbol = "BTCUSD" THEN [bid |-> 1000000000, ask |-> 1001000000]
    ELSE [bid |-> 110000, ask |-> 110010]

\* balances that leave the size of every class inside its limits or at one
SubmitBalances == {1, 50, 1000, 5000}

\* the order execute_trade prepares: the protective prices, then the size of
\* _calculate_position_size as the request's volume
ProbeSubmit ==
    /\ probe = NoProbe
    /\ \E symbol \in SizingSymbols, sig \in Signals, b \in SubmitBalances :
        LET a == [balance |-> b, equity |-> b]
        IN probe' = [fn |-> "submit", symbol |-> symbol, signal |-> sig,
                     account |-> a, risk |-> DefaultRisk,
                     request |-> NewPosition(1, symbol, sig, SubmitTick(symbol), 0),
                     volume |-> calculate_position_size(symbol, a, DefaultRisk,
                                                        FALSE)]
    /\ ProbeUnchanged

\* account states at, one above and one below the 7% and the 29% loss of a
\* balance of 100, and at the 3% and the 10% loss of a balance of 5000; risk
\* settings with the daily-loss limit below, at and above the drawdown limit
LimitAccounts ==
    {[balance |-> 100, equity |-> e] : e \in {94, 93, 92, 72, 71, 70}}
        \cup {[balance |-> 5000, equity |-> e] : e \in {4851, 4850, 4501, 4500}}
LimitRisk ==
    {DefaultRisk} \cup
    {[max_daily_loss_percent |-> pd[1], max_account_drawdown |-> pd[2]] :
        pd \in {<<7, 10>>, <<7, 7>>, <<15, 10>>, <<50, 29>>}}

\* execute_trade with no position open, the gateway answering every call and
\* accepting the order
ProbeGate ==
    /\ probe = NoProbe
    /\ \E a \in LimitAccounts, rs \in LimitRisk, sig \in Signals :
        LET g == [account |-> a, listed |-> TRUE, tick |-> BaseTick,
                  account2 |-> TRUE, symbol |-> TRUE, done |-> TRUE]
        IN probe' = [fn |-> "gate", account |-> a, risk |-> rs, signal |-> sig,
                     outcome |-> execute_trade(TRUE, "EURUSD", sig, g, rs, {})]
    /\ ProbeUnchanged

\* _data_driven_strategy on the votes of the six sub-strategies
ProbeVote ==
    /\ probe = NoProbe
    /\ \E votes \in [1..6 -> Votes] :
        probe' = [fn |-> "vote", votes |-> votes,
                  decision |-> data_driven_strategy(votes)]
    /\ ProbeUnchanged

\* _optimized_scalping_strategy on the votes of the five sub-strategies
ProbeCount ==
    /\ probe = NoProbe
    /\ \E votes \in [1..5 -> Votes] :
        probe' = [fn |-> "count", votes |-> votes,
                  decision |-> optimized_scalping_strategy(votes)]
    /\ ProbeUnchanged

\* DemoTester._should_execute_trade(symbol, signal) with a position open on
\* EURUSD or none, and a trade logged at time 0 or none
ProbeShould ==
    /\ probe = NoProbe
    /\ \E symbol \in {"EURUSD", "GBPUSD"}, listed \in BOOLEAN, t \in {300, 599, 600},
          ps \in {{}, {NewPosition(1, "EURUSD", "BUY", BaseTick, 0)}},
          log \in {<<>>, <<[symbol |-> "EURUSD", timestamp |-> 0]>>} :
        probe' = [fn |-> "should", symbol |-> symbol, listed |-> listed,
                  time |-> t, positions |-> ps, trade_log |-> log,
                  answer |-> should_execute_trade(listed, symbol, ps, log, t)]
    /\ ProbeUnchanged

\* bar series: flat, rising and falling by one point a bar, rising every
\* second bar, swinging +3 +3 -6, and moving 20 points before 16 flat bars
BarKinds == {"flat", "rising", "falling", "steps", "swing", "settled"}
BarCounts == {2, 5, 9, 10, 13, 14, 15, 16, 19, 20, 21, 25}

BarSeries(kind, n) ==
    [i \in 1..n |->
        LET c == CASE kind = "flat" -> 0
                   [] kind = "rising" -> i
                   [] kind = "falling" -> -i
                   [] kind = "steps" -> i \div 2
                   [] kind = "swing" -> 3 * (i % 3)
                   [] kind = "settled" -> IF i <= n - 16 THEN 20 + i ELSE 0
            wick == IF kind \in {"flat", "settled"} THEN 0 ELSE 1
        IN [close |-> c, high |-> c + wick, low |-> c - wick]]

\* calculate_technical_indicators on a series and the four sub-strategies
\* that read its latest row, with the bid in points from the base price
ProbeIndicators ==
    /\ probe = NoProbe
    /\ \E kind \in BarKinds, n \in BarCounts, bid \in {-30, 1, 30},
          rounding \in {-1, 0, 1} :
        LET latest == calculate_technical_indicators(BarSeries(kind, n))
        IN probe' = [fn |-> "indicators", kind |-> kind, series |-> BarSeries(kind, n),
                     bid |-> bid, latest |-> latest,
                     rsi |-> optimized_rsi_strategy(latest),
                     bb |-> optimized_bb_strategy(latest, bid),
                     stoch |-> optimized_stoch_strategy(latest),
                     ma |-> optimized_ma_strategy(latest, rounding)]
    /\ ProbeUnchanged

\* TradingStrategy.analyze_market on 50 bars and a tick, the five
\* sub-strategies voting as given
ProbeScalping ==
    /\ probe = NoProbe
    /\ \E votes \in [1..5 -> Votes] :
        LET answer == scalping_strategy(votes)
        IN probe' = [fn |-> "scalping", votes |-> votes, answer |-> answer,
                     signal |-> analyze_market("TradingStrategy", 50, BaseTick,
                                               answer)]
    /\ ProbeUnchanged

ProbeNext ==
    \/ ProbeIndicators
    \/ ProbeScalping
    \/ ProbeShould
    \/ ProbeExit
    \/ ProbeGate
    \/ ProbeOrder
    \/ ProbeSize
    \/ ProbeSubmit
    \/ ProbeVote
    \/ ProbeCount

ProbeSpec == ProbeInit /\ [][ProbeNext]_vars

(***************************************************************************)
(* Properties.                                                             *)
(***************************************************************************)
TraceIdx == 1..Len(cyc.trace)

IsEntry(e) == e.ev \in {"signal", "order"}
IsExit(e) == e.ev \in {"eval", "error", "close"}

RECURSIVE SignalSymbols(_)
SignalSymbols(tr) ==
    IF tr = <<>> THEN <<>>
    ELSE IF Head(tr).ev = "signal"
    THEN <<Head(tr).symbol>> \o SignalSymbols(Tail(tr))
    ELSE SignalSymbols(Tail(tr))

C2_EveryCycleManages ==
    pc = "sleep" /\ cyc.inHours => cyc.pmRan

\* C3: at the end of a live cycle outside the active hours no signal was
\* evaluated and no order submitted, and the position manager has run.
C3_OffHoursStillManages ==
    mode = "live" /\ pc = "sleep" /\ ~cyc.inHours =>
        /\ \A i \in TraceIdx : ~IsEntry(cyc.trace[i])
        /\ cyc.pmRan

\* an accepted order for the symbol from an earlier cycle, less than the
\* cooldown window ago
TradedWithinCooldown(symbol) ==
    \E k \in 1..Len(orders) :
        /\ orders[k].symbol = symbol
        /\ orders[k].time < now
        /\ now - orders[k].time < CooldownSeconds

\* C4: in a cycle in which a position on a symbol breached its stop-loss and
\* an order for the same symbol was submitted, the close request came before
\* the order, and the symbol had not traded within the cooldown window.
C4_CloseThenCooldown ==
    \A i, j \in TraceIdx :
        /\ cyc.trace[i].ev = "order"
        /\ cyc.trace[j].ev = "close"
        /\ cyc.trace[j].why = "stop_loss"
        /\ cyc.trace[j].symbol = cyc.trace[i].symbol
        => /\ j < i
           /\ ~TradedWithinCooldown(cyc.trace[i].symbol)

\* C5: two accepted orders for the same symbol are at least the cooldown
\* window (600 s) apart, in both modes.
C5_CooldownBetweenOrders ==
    \A i, j \in 1..Len(orders) :
        i < j /\ orders[i].symbol = orders[j].symbol =>
            orders[j].time - orders[i].time >= CooldownSeconds

\* C6: the gateway never holds two open positions for the same symbol.
C6_OnePositionPerSymbol ==
    \A p, q \in positions : p.symbol = q.symbol => p = q

\* C7: the gateway never holds more than max_open_positions open positions.
C7_MaxOpenPositions ==
    Cardinality(positions) <= max_open_positions

\* C8: no order is sent by an attempt whose account state satisfies
\* equity - balance <= -balance * maxDailyLossPercent / 100, the limit itself
\* included; with balance 5000 and 3% (threshold 150) equity 4800 is blocked
\* by the daily-loss check and equity 4851 is not.
C8_DailyLossBlocks ==
    /\ LET a == attempt.account
       IN /\ a # NoAccount
             /\ (a.equity - a.balance) * 100
                   <= -(a.balance * risk_settings.max_daily_loss_percent)
             => ~attempt.sent /\ ~attempt.result
          /\ a = [balance |-> 5000, equity |-> 4800]
             /\ risk_settings.max_daily_loss_percent = 3
             => attempt.blockedBy = "daily_loss"
          /\ a = [balance |-> 5000, equity |-> 4851]
             /\ risk_settings.max_daily_loss_percent = 3
             => attempt.blockedBy # "daily_loss"
    /\ probe.fn = "gate"
       /\ (probe.account.equity - probe.account.balance) * 100
             <= -(probe.account.balance * probe.risk.max_daily_loss_percent)
       => ~probe.outcome.sent /\ ~probe.outcome.result

\* C9: no order is sent by an attempt whose account state has balance > 0 and
\* (balance - equity) / balance * 100 >= maxAccountDrawdown, the limit itself
\* included.
C9_DrawdownBlocks ==
    /\ LET a == attempt.account
       IN a # NoAccount /\ a.balance > 0
          /\ (a.balance - a.equity) * 100
                >= risk_settings.max_account_drawdown * a.balance
          => ~attempt.sent /\ ~attempt.result
    /\ probe.fn = "gate" /\ probe.account.balance > 0
       /\ (probe.account.balance - probe.account.equity) * 100
             >= probe.risk.max_account_drawdown * probe.account.balance
       => ~probe.outcome.sent /\ ~probe.outcome.result

ClaimedCheckOrder ==
    <<"daily_loss", "drawdown", "max_positions", "existing", "cooldown">>

\* C10: the checks of an attempt ran in the order daily-loss, drawdown,
\* max-positions, existing-position/cooldown and stopped at the first failure;
\* an order was sent only after all of them passed; and an attempt that was
\* blocked sent no order and left the tracked positions, the trade log and the
\* trade notifications as they were.
C10_ChecksInOrder ==
    attempt # NoAttempt =>
        /\ Len(attempt.checks) <= Len(ClaimedCheckOrder)
        /\ attempt.checks = SubSeq(ClaimedCheckOrder, 1, Len(attempt.checks))
        /\ attempt.sent => attempt.checks = ClaimedCheckOrder
        /\ ~attempt.result =>
               /\ attempt.blockedBy # "order_failed" => ~attempt.sent
               /\ attempt.before = Snapshot(open_positions, trades_csv, notified)

OpenEvent(ticket) == [action |-> "OPEN", ticket |-> ticket]

CloseEvent(ticket) == [action |-> "CLOSE", ticket |-> ticket]

\* every ticket the gateway has handed out, and the next one
AllTickets == 1..nextTicket

\* C12: no ticket has two successful closes or two CLOSE events, a CLOSE
\* event is logged only for a successful close, a ticket closed by the engine
\* is not open at the gateway, and close_position on a ticket the gateway
\* does not list fails without calling order_send, whatever the gateway
\* answers; and the positions a step adds at the gateway carry tickets that
\* were never used before.
C12_ClosedAtMostOnce ==
    /\ [](/\ \A i, j \in 1..Len(closes) : closes[i] = closes[j] => i = j
          /\ \A i, j \in 1..Len(trades_csv) :
                 /\ trades_csv[i].action = "CLOSE"
                 /\ trades_csv[i] = trades_csv[j]
                 => i = j
          /\ \A i \in 1..Len(trades_csv) :
                 trades_csv[i].action = "CLOSE" =>
                     \E k \in 1..Len(closes) : closes[k] = trades_csv[i].ticket
          /\ \A k \in 1..Len(closes) : closes[k] \notin Tickets(positions)
          /\ \A t \in AllTickets \ Tickets(positions) :
                 \A g \in CloseAnswers :
                     LET r == close_position(t, g, positions)
                     IN ~r.result /\ ~r.sent /\ ~r.logged)
    /\ [][\A p \in positions' \ positions : p.ticket >= nextTicket]_vars

\* in one cycle a position was closed by the engine and its CLOSE event
\* logged, and close_position was called for another position that the
\* gateway had already closed
C12_Witness ==
    /\ \E k \in 1..Len(closes) :
           /\ closes[k] \notin Tickets(positions)
           /\ \E i \in 1..Len(trades_csv) : trades_csv[i] = CloseEvent(closes[k])
    /\ \E i \in TraceIdx :
           /\ cyc.trace[i].ev = "close"
           /\ cyc.trace[i].ticket \notin Tickets(positions)
           /\ \A k \in 1..Len(closes) : closes[k] # cyc.trace[i].ticket

Tracked(seq) == {seq[k] : k \in 1..Len(seq)}

\* C13: a ticket whose close the gateway confirmed is not in open_positions,
\* and a ticket leaves open_positions only in a step after which its close
\* has been confirmed.
C13_TrackedUntilCloseConfirmed ==
    /\ [](\A k \in 1..Len(closes) : closes[k] \notin Tracked(open_positions))
    /\ [][\A t \in Tracked(open_positions) \ Tracked(open_positions') :
              t \in Tracked(closes')]_vars

\* the smallest standard price increment of the symbol's instrument class,
\* in points: 0.0001 for a standard pair, 0.01 for a JPY-quoted pair
PipPoints(symbol) == IF symbol = "USDJPY" THEN 1000 ELSE 10

\* C14: for a position on a standard pair with a tick available and an age
\* within the holding limit, close_position is called if and only if the
\* profit is >= 9 pips or <= -6 pips.
C14_ExitIffThreshold ==
    /\ probe.fn = "exit"
    /\ probe.position.symbol = "EURUSD"
    /\ probe.tick # NoTick
    /\ probe.age <= MaxAgeSeconds
    => LET profit == ProfitPoints(probe.position, probe.tick)
       IN probe.close <=> \/ profit >= TakeProfitPips * PipPoints("EURUSD")
                          \/ profit <= -(StopLossPips * PipPoints("EURUSD"))

\* C15: a position older than the maximum holding duration gets a close
\* request; one aged exactly 1800 s on a standard pair with a profit
\* strictly between -6 and 9 pips gets none.
C15_TimeExit ==
    probe.fn = "exit" =>
        /\ probe.age > MaxAgeSeconds => probe.close
        /\ /\ probe.age = MaxAgeSeconds
           /\ probe.tick # NoTick
           /\ probe.position.symbol = "EURUSD"
           /\ ProfitPoints(probe.position, probe.tick) < TakeProfitPips * 10
           /\ ProfitPoints(probe.position, probe.tick) > -(StopLossPips * 10)
           => ~probe.close

\* C16: with a tick available, the take-profit exit is taken exactly when
\* (bid - open) for a BUY, (open - ask) for a SELL, is at least 9 pips of
\* the position's instrument.
C16_PipsOfInstrument ==
    probe.fn = "exit" /\ probe.tick # NoTick =>
        LET p == probe.position
            move == IF p.type = "BUY" THEN probe.tick.bid - p.price_open
                    ELSE p.price_open - probe.tick.ask
        IN probe.trigger = "take_profit"
               <=> move >= TakeProfitPips * PipPoints(p.symbol)

\* C17: the order request carries a stop-loss 6 pips of the instrument on
\* the losing side of the entry price and a take-profit 9 pips on the
\* winning side, the entry being the ask for a BUY and the bid for a SELL.
C17_ProtectivePrices ==
    probe.fn = "order" =>
        LET r == probe.request
            pip == PipPoints(probe.symbol)
        IN IF probe.signal = "BUY"
           THEN /\ r.price_open = probe.tick.ask
                /\ r.sl = r.price_open - StopLossPips * pip
                /\ r.tp = r.price_open + TakeProfitPips * pip
                /\ r.sl < r.price_open /\ r.price_open < r.tp
           ELSE /\ r.price_open = probe.tick.bid
                /\ r.sl = r.price_open + StopLossPips * pip
                /\ r.tp = r.price_open - TakeProfitPips * pip
                /\ r.tp < r.price_open /\ r.price_open < r.sl

\* the sizing parameters of the instrument classes: stop distance, pip
\* value, smallest and largest size
ClassParameters(symbol) ==
    IF symbol = "XAUUSD"
    THEN [stop |-> 80, pipValueThousandths |-> 10, min |-> 10, max |-> 1000]
    ELSE IF symbol = "BTCUSD"
    THEN [stop |-> 150, pipValueThousandths |-> 1, min |-> 1, max |-> 100]
    ELSE [stop |-> 6, pipValueThousandths |-> 10000, min |-> 10, max |-> 1000]

C19_SizeWithinLimits ==
    probe.fn = "size" =>
        LET c == ClassParameters(probe.symbol)
        IN /\ probe.size > 0
           /\ c.min <= probe.size /\ probe.size <= c.max
           /\ probe.failed \/ probe.account = NoAccount => probe.size = c.min

\* C20: the decision is NO_SIGNAL when no vote is BUY or SELL; otherwise BUY
\* when the BUY votes are at least 0.6 of the non-abstaining votes, SELL when
\* the SELL votes are, and NO_SIGNAL in all other cases.
C20_RatioAggregation ==
    probe.fn = "vote" =>
        LET buy == Cardinality({i \in 1..6 : probe.votes[i] = "BUY"})
            sell == Cardinality({i \in 1..6 : probe.votes[i] = "SELL"})
            validCount == buy + sell
        IN probe.decision =
               IF validCount = 0 THEN "NO_SIGNAL"
               ELSE IF 5 * buy >= 3 * validCount THEN "BUY"
               ELSE IF 5 * sell >= 3 * validCount THEN "SELL"
               ELSE "NO_SIGNAL"

\* 2 BUY and 1 SELL among 3 valid votes gave BUY
C20_Witness ==
    /\ probe.fn = "vote"
    /\ Cardinality({i \in 1..6 : probe.votes[i] = "BUY"}) = 2
    /\ Cardinality({i \in 1..6 : probe.votes[i] = "SELL"}) = 1
    /\ probe.decision = "BUY"

\* the BUY and SELL votes among the votes last aggregated
VotesFor(side) == Cardinality({i \in DOMAIN probe.votes : probe.votes[i] = side})

C22_DrawIsNone ==
    /\ probe.fn = "count" /\ VotesFor("BUY") >= 2 /\ VotesFor("SELL") >= 2
           => probe.decision = "NO_SIGNAL"
    /\ probe.fn = "vote"
           /\ VotesFor("BUY") + VotesFor("SELL") > 0
           /\ 5 * VotesFor("BUY") >= 3 * (VotesFor("BUY") + VotesFor("SELL"))
           /\ 5 * VotesFor("SELL") >= 3 * (VotesFor("BUY") + VotesFor("SELL"))
           => probe.decision = "NO_SIGNAL"

\* the step is a call of analyze_market
AnalyzedNow ==
    /\ Len(cyc'.trace) = Len(cyc.trace) + 1
    /\ cyc'.trace[Len(cyc'.trace)].ev = "signal"

\* C23: when analyze_market is given fewer than 2 bars it returns NO_SIGNAL,
\* nothing is raised to the scheduler (the loop is not left), and the
\* scheduler goes on in the same cycle: to the next symbol, or past the symbol
\* loop when the symbol was the last.
C23_FewBarsNoSignal ==
    [][AnalyzedNow /\ bars' < 2 =>
          /\ signal' = "NO_SIGNAL"
          /\ halt' = halt /\ cycles' = cycles /\ connected' = connected
          /\ IF idx < Len(Pairs)
             THEN pc' = "analyze" /\ idx' = idx + 1
             ELSE pc' = "status"]_vars

\* analyze_market got one bar for the first symbol and the scheduler is about
\* to analyse the second
C23_Witness ==
    /\ bars = 1
    /\ signal = "NO_SIGNAL"
    /\ pc = "analyze" /\ idx = 2
    /\ cyc.trace # <<>>
    /\ cyc.trace[Len(cyc.trace)] = Event("signal", 0, Pairs[1], "-")

\* the number of bars of the series last given to the indicators
BarsGiven == Len(probe.series)

\* C24: on a series shorter than an indicator's window (RSI 14, SMA 10 and
\* 20, Bollinger 20, Stochastic 14 and 3 more values of %K for %D) the
\* indicator is undefined, not zero, and the sub-strategy reading it returns
\* NO_SIGNAL.
C24_ShortSeriesAbstain ==
    probe.fn = "indicators" =>
        /\ BarsGiven < 14 => probe.latest.rsi.kind = "nan" /\ probe.rsi = "NO_SIGNAL"
        /\ BarsGiven < 10 => probe.latest.sma_10.kind = "nan" /\ probe.ma = "NO_SIGNAL"
        /\ BarsGiven < 20 => probe.latest.sma_20.kind = "nan" /\ probe.ma = "NO_SIGNAL"
        /\ BarsGiven < 20 => probe.latest.bb.kind = "nan" /\ probe.bb = "NO_SIGNAL"
        /\ BarsGiven < 14 => probe.latest.stoch_k.kind = "nan" /\ probe.stoch = "NO_SIGNAL"
        /\ BarsGiven < 14 + 3 - 1 =>
               probe.latest.stoch_d.kind = "nan" /\ probe.stoch = "NO_SIGNAL"

\* 15 rising bars: %K and SMA 10 are defined, %D, SMA 20 and the bands are
\* not, and the MA, Bollinger and Stochastic sub-strategies abstained
C24_Witness ==
    /\ probe.fn = "indicators"
    /\ probe.kind = "rising" /\ BarsGiven = 15
    /\ probe.latest.stoch_k.kind = "num" /\ probe.latest.sma_10.kind = "num"
    /\ probe.latest.stoch_d.kind = "nan" /\ probe.latest.sma_20.kind = "nan"
    /\ probe.ma = "NO_SIGNAL" /\ probe.bb = "NO_SIGNAL" /\ probe.stoch = "NO_SIGNAL"

\* the rows of the 14-bar window that ends at the latest bar
LastWindow == (BarsGiven - 13)..BarsGiven

\* a close of the window is below / above the close before it
FallingIn(w) == \E i \in w : i > 1 /\ probe.series[i].close < probe.series[i - 1].close
RisingIn(w) == \E i \in w : i > 1 /\ probe.series[i].close > probe.series[i - 1].close

\* C25: when no close of the 14-bar window falls and at least one rises (the
\* average loss is 0), RSI is undefined, not 100, and the RSI sub-strategy
\* returns NO_SIGNAL, not SELL.
C25_NoLossRsiUndefined ==
    /\ probe.fn = "indicators" /\ BarsGiven >= 14
    /\ ~FallingIn(LastWindow) /\ RisingIn(LastWindow)
    => probe.latest.rsi.kind = "nan" /\ probe.rsi = "NO_SIGNAL"

\* C26: when the highest high and the lowest low of the last 14 bars are
\* equal, %K and %D are undefined and the Stochastic sub-strategy returns
\* NO_SIGNAL.
C26_FlatStochasticAbstains ==
    /\ probe.fn = "indicators" /\ BarsGiven >= 14
    /\ \A i, j \in LastWindow : probe.series[i].high = probe.series[j].low
    => /\ probe.latest.stoch_k.kind = "nan"
       /\ probe.latest.stoch_d.kind = "nan"
       /\ probe.stoch = "NO_SIGNAL"

\* 25 bars of which the last 16 are flat: the Stochastic sub-strategy abstained
C26_Witness ==
    /\ probe.fn = "indicators"
    /\ probe.kind = "settled" /\ BarsGiven = 25
    /\ probe.series[1].close # probe.series[25].close
    /\ probe.latest.stoch_k.kind = "nan"
    /\ probe.stoch = "NO_SIGNAL"

\* the step is one in which a call made by the loop itself raised
RaisedNow ==
    /\ Len(cyc'.trace) = Len(cyc.trace) + 1
    /\ cyc'.trace[Len(cyc'.trace)].ev = "raise"

\* C27: in both schedulers an exception raised inside a cycle leaves the run
\* in its loop, connected, for a later cycle; and a connected live run leaves
\* its loop only on a stop signal.
C27_ExceptionKeepsLooping ==
    /\ [][RaisedNow => pc' \in LoopPcs /\ halt' = <<>> /\ connected']_vars
    /\ [](mode = "live" /\ startup = "ok" /\ halt # <<>> => Head(halt) = "stop")

\* C28: a demo run that has started its loop and is over has emitted the
\* final report and then disconnected, whether the budget was used up or a
\* stop signal arrived; a stop signal at any point of the loop, the error
\* back-off included, leads to the report.
C28_BoundedRunReports ==
    /\ [](mode = "demo" /\ cycles > 0 /\ pc = "done" =>
             /\ halt \in {<<"budget", "report", "disconnect">>,
                          <<"stop", "report", "disconnect">>}
             /\ ~connected)
    /\ [][mode = "demo" /\ halt = <<>> /\ halt' = <<"stop">> => pc' = "report"]_vars

\* C29: a stop signal ends the run only between cycles (at the head of the
\* loop or during the sleep that ends a cycle), so that every order the
\* gateway accepted has been registered and logged when the shutdown path
\* runs; and the shutdown path emits the summary before it disconnects.
C29_StopBetweenCycles ==
    /\ [][halt = <<>> /\ halt' # <<>> /\ Head(halt') = "stop" =>
              pc \in {"loop", "sleep", "backoff"}]_vars
    /\ [](halt # <<>> /\ Head(halt) = "stop" =>
             /\ Len(orders) = Cardinality({k \in 1..Len(trades_csv) :
                                              trades_csv[k].action = "OPEN"})
             /\ mode = "live" => Len(orders) = Len(open_positions)
             /\ pc = "done" => halt \in {<<"stop", "summary", "disconnect">>,
                                         <<"stop", "report", "disconnect">>})

\* C30: when connect() failed (initialize, login or the account query failed,
\* or it raised), the run is over without a cycle: no signal was evaluated,
\* no order was sent and no close was requested.
C30_NoCycleWithoutConnection ==
    startup \notin {"-", "ok"} =>
        /\ pc = "done" /\ ~connected
        /\ cycles = 0 /\ cyc.trace = <<>>
        /\ orders = <<>> /\ closes = <<>> /\ positions = {}
        /\ trades_csv = <<>> /\ attempt = NoAttempt

\* a demo run whose account query failed at connect is over
C30_Witness ==
    /\ mode = "demo"
    /\ startup = "account_info"
    /\ pc = "done"

\* C31: the way a notification delivery goes (sent, disabled, credentials
\* missing, HTTP error, exception) changes nothing of the trading outcome.
\* Whenever analyze_market has a signal notified, it returns that very signal
\* and the scheduler goes on to execute it; whenever the gateway accepts an
\* order, the trade notification names its ticket, execute_trade returns True,
\* the position is tracked and its OPEN event logged, and the run stays in
\* its loop: the same for each of the five ways.
C31_DeliveryNeverMatters ==
    [][/\ AnalyzedNow /\ delivery'.what = "signal" =>
              /\ delivery'.outcome \in Delivery
              /\ signal' = delivery'.about
              /\ pc' = "execute" /\ halt' = halt
       /\ \A p \in positions' \ positions :
              /\ delivery' = Delivered("trade", p.ticket, delivery'.outcome)
              /\ delivery'.outcome \in Delivery
              /\ attempt'.result
              /\ open_positions' = Append(open_positions, p.ticket)
              /\ trades_csv' = Append(trades_csv, OpenEvent(p.ticket))
              /\ pc' \in LoopPcs /\ halt' = halt
      ]_vars

\* requests.post raised while the trade notification of an accepted order was
\* being delivered: the position is tracked and logged
C31_Witness ==
    /\ delivery.what = "trade"
    /\ delivery.outcome = "exception"
    /\ attempt.result
    /\ open_positions # <<>>
    /\ open_positions[Len(open_positions)] = delivery.about
    /\ trades_csv[Len(trades_csv)] = OpenEvent(delivery.about)
    /\ pc \in LoopPcs

\* execute_trade was called in this step
ExecutedNow == pc = "execute" /\ attempt = NoAttempt /\ attempt' # NoAttempt

\* the order submissions of the current cycle for a symbol
Submissions(symbol) ==
    {k \in 1..Len(cyc.trace) :
        cyc.trace[k].ev = "order" /\ cyc.trace[k].symbol = symbol}

\* C32: in a cycle order_send is called at most once per symbol; when the
\* submission fails, nothing is tracked, logged or notified for it, and the
\* scheduler goes on with the next symbol of the cycle (past the symbol loop
\* when the symbol was the last) without submitting again.
C32_OneSubmissionPerSymbol ==
    /\ [](\A symbol \in {Pairs[i] : i \in 1..Len(Pairs)} :
             Cardinality(Submissions(symbol)) <= 1)
    /\ [][ExecutedNow /\ attempt'.sent /\ ~attempt'.result =>
              /\ open_positions' = open_positions
              /\ trades_csv' = trades_csv
              /\ notified' = notified
              /\ positions' = positions
              /\ IF idx < Len(Pairs)
                 THEN pc' = "analyze" /\ idx' = idx + 1
                 ELSE pc' = "status"]_vars

\* the gateway refused the order for the first symbol, nothing is tracked,
\* and the second symbol is being evaluated
C32_Witness ==
    /\ attempt.symbol = Pairs[1]
    /\ attempt.sent /\ ~attempt.result
    /\ Cardinality(Submissions(Pairs[1])) = 1
    /\ open_positions = <<>>
    /\ pc = "analyze" /\ idx = 2

\* C33: when a gateway call fails while one position is managed (no tick, or
\* the call raises), only that position is skipped: once the scheduler is
\* past manage_open_positions, every position it listed has been visited,
\* either evaluated or skipped for its own failure; and the step in which a
\* position is visited leaves the scheduler in the manager or at the first
\* symbol's signal evaluation.
C33_FailureSkipsOnePosition ==
    /\ [](cyc.pmRan /\ pc \in {"analyze", "execute", "status", "sleep"} =>
             \A t \in cyc.listing :
                 \E j \in TraceIdx :
                     /\ cyc.trace[j].ticket = t
                     /\ cyc.trace[j].ev \in {"eval", "error"})
    /\ [][pc = "manage_pos" /\ cyc'.trace # cyc.trace =>
              pc' \in {"manage_pos", "analyze"} /\ halt' = halt]_vars

\* C34: TradingStrategy.analyze_market, given bars and a tick, returns BUY
\* when at least 60% of the non-abstaining votes of its five sub-strategies
\* are BUY, SELL when at least 60% are SELL, and NO_SIGNAL otherwise.
C34_DemoMajority ==
    probe.fn = "scalping" =>
        LET buy == Cardinality({i \in 1..5 : probe.votes[i] = "BUY"})
            sell == Cardinality({i \in 1..5 : probe.votes[i] = "SELL"})
        IN probe.signal =
               IF buy + sell = 0 THEN "NO_SIGNAL"
               ELSE IF 5 * buy >= 3 * (buy + sell) THEN "BUY"
               ELSE IF 5 * sell >= 3 * (buy + sell) THEN "SELL"
               ELSE "NO_SIGNAL"

\* the close requests of the current cycle for a ticket
CloseRequests(ticket) ==
    {k \in 1..Len(cyc.trace) :
        cyc.trace[k].ev = "close" /\ cyc.trace[k].ticket = ticket}

\* C35: a position that satisfies an exit trigger whenever the manager looks
\* at it, and whose close call succeeds in the end, is closed in the end; in
\* every cycle in which manage_open_positions has run and listed it,
\* close_position has been called for it by the time the signals are
\* evaluated; and no cycle calls close_position twice for one ticket.
C35_EventuallyClosed ==
    /\ <>(Watched \notin Tickets(positions))
    /\ [](pc \in {"analyze", "status", "sleep"} /\ Watched \in cyc.listing =>
             CloseRequests(Watched) # {})
    /\ [](\A t \in 1..Watched : Cardinality(CloseRequests(t)) <= 1)

\* C36: an attempt whose risk check could not read the account, read a
\* balance of 0, or ran into an error (the drawdown of a zero balance cannot
\* be computed) returned False without calling order_send, stopped by the
\* risk check itself.
C36_RiskGateFailsClosed ==
    LET a == attempt.account
    IN attempt.symbol # "-" /\ connected /\ (a = NoAccount \/ a.balance = 0) =>
           /\ ~attempt.result
           /\ ~attempt.sent
           /\ attempt.blockedBy \in {"no_account", "daily_loss", "error"}
           /\ attempt.before = Snapshot(open_positions, trades_csv, notified)

\* an attempt on an account with balance 0 and equity 10 passed the
\* daily-loss test, failed in the drawdown division and sent nothing
C36_Witness ==
    /\ attempt.account = [balance |-> 0, equity |-> 10]
    /\ attempt.blockedBy = "error"
    /\ attempt.checks = <<"daily_loss">>
    /\ ~attempt.sent /\ ~attempt.result

\* the distance between the entry price and the attached stop loss of the
\* order last prepared, in points of 0.00001
AttachedStop ==
    LET r == probe.request
    IN IF r.sl <= r.price_open THEN r.price_open - r.sl ELSE r.sl - r.price_open

\* C37: for every instrument class the stop-loss distance attached to the
\* order is the stop distance its size was computed with (6 pips for standard
\* pairs, 80 for metals, 150 for crypto, a pip being the 0.0001 of
\* execute_trade), and for a size inside the class limits the loss at the
\* attached stop is the risk amount balance * pct / 100 / 3, up to the
\* rounding of the size to the thousandth.
C37_StopMatchesSizing ==
    probe.fn = "submit" =>
        LET c == ClassParameters(probe.symbol)
            \* loss at the attached stop and risk amount, on one denominator
            pips == AttachedStop \div 10
            loss == probe.volume * pips * c.pipValueThousandths * 3
            risk == probe.account.balance * probe.risk.max_daily_loss_percent
                        * 10000
            unit == pips * c.pipValueThousandths * 3
        IN /\ AttachedStop = c.stop * 10
           /\ c.min < probe.volume /\ probe.volume < c.max =>
                  /\ 2 * (loss - risk) <= unit
                  /\ 2 * (risk - loss) <= unit

\* every BUY exchanged with a SELL, on the votes and on a decision
Exchanged(v) == IF v = "BUY" THEN "SELL" ELSE IF v = "SELL" THEN "BUY" ELSE v
ExchangedVotes == [i \in DOMAIN probe.votes |-> Exchanged(probe.votes[i])]

\* C38: in ratio mode with threshold 0.6 the decision agrees with the strict
\* majority of the non-abstaining votes: BUY only with more BUY than SELL
\* votes, SELL only with more SELL than BUY votes; and the decision on the
\* votes with every BUY and SELL exchanged is the exchanged decision.
C38_RatioFollowsMajority ==
    probe.fn = "vote" =>
        /\ probe.decision = "BUY" => VotesFor("BUY") > VotesFor("SELL")
        /\ probe.decision = "SELL" => VotesFor("SELL") > VotesFor("BUY")
        /\ data_driven_strategy(ExchangedVotes) = Exchanged(probe.decision)

\* 3 BUY and 2 SELL among 5 valid votes gave BUY, and the exchanged votes
\* give SELL
C38_Witness ==
    /\ probe.fn = "vote"
    /\ VotesFor("BUY") = 3
    /\ VotesFor("SELL") = 2
    /\ probe.decision = "BUY"
    /\ data_driven_strategy(ExchangedVotes) = "SELL"

\* C39: with maxDailyLossPercent <= maxAccountDrawdown and balance > 0, every
\* account state on which the drawdown check answers "reached" is one on
\* which the daily-loss check does, and no attempt is stopped by the drawdown
\* check.
C39_DrawdownNeverDecides ==
    /\ probe.fn = "gate" /\ probe.account.balance > 0
    /\ probe.risk.max_daily_loss_percent <= probe.risk.max_account_drawdown
    => /\ DrawdownReached(probe.account, probe.risk)
              => DailyLossReached(probe.account, probe.risk)
       /\ probe.outcome.blockedBy # "drawdown"

====
